---- MODULE Spec2Model ----
(***************************************************************************)
(* Repeater allocation (jtrabbie/RepAlloc): the link-based and path-based  *)
(* ILP formulations of formulations.py, the solver call, and the parsing   *)
(* of the solver's answer in solution.py, driven the way                   *)
(* main_solve.compare_formulations drives them: build and solve the        *)
(* link-based formulation, build and solve the path-based formulation on   *)
(* the same graph with the same parameters, compare, clear.                *)
(*                                                                         *)
(* Numbers are integers.  Edge lengths are positive integers; alpha is the *)
(* rational alpha / AlphaDen and every objective value is kept in units of *)
(* 1 / AlphaDen, so the y coefficient 1.0 is AlphaDen.                     *)
(***************************************************************************)
EXTENDS Integers, Sequences, FiniteSets, TLC

\* ------------------------------------------------------------------ bounds
\* Edge lengths are 1..MaxLen and L_max is 1..MaxLmax.  N_max, D and K need no
\* bound of their own: Formulation.__init__ clamps N_max to the number of
\* possible repeater nodes and D to the number of pairs, and rejects K above
\* the number of possible repeater nodes plus one, so their ranges follow
\* from the graph.
MaxLen == 2
MaxLmax == 3

\* alpha = 1 / AlphaDen is the alpha of main_solve.compare_formulations.
AlphaDen == 100

\* --------------------------------------------------------------- utilities
Range(f) == {f[x] : x \in DOMAIN f}

RECURSIVE SumSet(_, _)
\* Sum of w[e] over the finite set S.
SumSet(S, w) ==
    IF S = {} THEN 0
    ELSE LET e == CHOOSE x \in S : TRUE IN w[e] + SumSet(S \ {e}, w)

Last(s) == s[Len(s)]

Contains(s, e) == \E i \in 1..Len(s) : s[i] = e

\* Python list + list, then list[1:]
Rest(s) == SubSeq(s, 2, Len(s))

\* ------------------------------------------------------------------- graph
\* A graph is [nodes |-> sequence of node names in graph.nodes order,
\*             type  |-> node -> "end_node" | "repeater_node",
\*             length |-> {u, v} -> edge length, 0 when there is no edge].
EndNames == <<"s", "t", "u">>
RepNames == <<"a", "b">>

\* The shapes the graphs are drawn from: the edges a graph may have, those
\* of them held at length MaxLen (long) and at length 1 (short); every other
\* edge takes each length 1..MaxLen.
Shapes ==
    { [ends |-> 2, reps |-> 2,
       edges |-> {{"s", "a"}, {"a", "t"}, {"s", "b"}, {"b", "t"}},
       long |-> {}, short |-> {}],
      [ends |-> 2, reps |-> 2,
       edges |-> {{"s", "a"}, {"a", "b"}, {"b", "t"}},
       long |-> {}, short |-> {}],
      [ends |-> 3, reps |-> 1,
       edges |-> {{"s", "a"}, {"t", "a"}, {"u", "a"}, {"s", "t"}},
       long |-> {}, short |-> {}],
      [ends |-> 3, reps |-> 2,
       edges |-> {{"s", "a"}, {"a", "t"}, {"s", "b"}, {"b", "t"},
                  {"a", "b"}, {"u", "a"}},
       long |-> {{"s", "a"}, {"a", "t"}, {"s", "b"}, {"b", "t"}},
       short |-> {{"a", "b"}, {"u", "a"}}] }

AllEdges(nodes) == {{u, v} : u, v \in Range(nodes)} \ {{u} : u \in Range(nodes)}

Neighbours(G, u) == {v \in Range(G.nodes) : v # u /\ G.length[{u, v}] > 0}

RECURSIVE Reach(_, _)
Reach(G, S) ==
    LET T == S \cup UNION {Neighbours(G, u) : u \in S}
    IN IF T = S THEN S ELSE Reach(G, T)

\* nx.descendants(G, source): the nodes reachable from source, source excluded.
descendants(G, source) == Reach(G, {source}) \ {source}

Connected(G) == Reach(G, {G.nodes[1]}) = Range(G.nodes)

MinOf(S) == CHOOSE m \in S : \A x \in S : m <= x

RECURSIVE DistWithin(_, _, _, _)
\* Length of the shortest i-j walk of at most n edges; -1 when there is none.
DistWithin(G, i, j, n) ==
    IF i = j THEN 0
    ELSE IF n = 0 THEN -1
    ELSE LET C == {<<v, DistWithin(G, v, j, n - 1)>> : v \in Neighbours(G, i)}
             D == {G.length[{i, c[1]}] + c[2] : c \in {c \in C : c[2] >= 0}}
         IN IF D = {} THEN -1 ELSE MinOf(D)

Dist(G, i, j) == DistWithin(G, i, j, Len(G.nodes) - 1)

RECURSIVE ShortestPath(_, _, _)
\* One shortest i-j path as a node sequence: at every node the first
\* neighbour, in graph.nodes order, that lies on a shortest path.
ShortestPath(G, i, j) ==
    IF i = j THEN <<i>>
    ELSE LET onPath(d) ==
                 {n \in 1..Len(G.nodes) :
                     /\ G.nodes[n] \in Neighbours(G, i)
                     /\ LET rest == Dist(G, G.nodes[n], j)
                        IN rest >= 0 /\ G.length[{i, G.nodes[n]}] + rest = d}
             via(ok) == <<i>> \o ShortestPath(G, G.nodes[MinOf(ok)], j)
         IN via(onPath(Dist(G, i, j)))

\* nx.single_source_dijkstra(G, source, target, weight='length'):
\* (path_cost, sp).  Only called on connected graphs here.
single_source_dijkstra(G, source, target) ==
    <<Dist(G, source, target), ShortestPath(G, source, target)>>


\* --------------------------------------------------------- GraphContainer
RECURSIVE Flatten(_)
\* Concatenation of a sequence of sequences (nested Python loops, in order).
Flatten(ss) == IF ss = <<>> THEN <<>> ELSE Head(ss) \o Flatten(Tail(ss))

SelectNodes(G, ty) == SelectSeq(G.nodes, LAMBDA n : G.type[n] = ty)

\* itertools.combinations(end_nodes, r=2), in its order.
combinations2(s) ==
    Flatten([i \in 1..Len(s) |->
                [j \in 1..(Len(s) - i) |-> <<s[i], s[i + j]>>]])

GraphContainer(G) ==
    LET ends == SelectNodes(G, "end_node")
        reps == SelectNodes(G, "repeater_node")
        pairs == combinations2(ends)
    IN [graph |-> G,
        end_nodes |-> ends,
        possible_rep_nodes |-> reps,
        num_end_nodes |-> Len(ends),
        num_repeater_nodes |-> Len(reps),
        unique_end_node_pairs |-> pairs,
        num_unique_pairs |-> Len(pairs)]

\* ------------------------------------------------ the solver's data model
\* Constraint names are strings in the code; here a name is a record of the
\* parts the string is built from ("" and 0 for the parts a name lacks).
NoPair == <<"", "">>
ConName(con, q, u, k) == [con |-> con, q |-> q, u |-> u, k |-> k]
VarName(var, q, i, j, k) == [var |-> var, q |-> q, i |-> i, j |-> j, k |-> k]

\* linear_constraints.add(rhs, senses, names): one row.
Row(name, sense, rhs) == [name |-> name, sense |-> sense, rhs |-> rhs]

\* cplex.SparsePair(ind, val)
SparsePair(ind, val) == [ind |-> ind, val |-> val]

\* variables.add(obj, ub, types, names, columns): one binary column.
Column(name, obj, column) ==
    [name |-> name, obj |-> obj, ub |-> 1, type |-> "B", column |-> column]

\* ---------------------------------------------------- Formulation.__init__
\* Faulty variant of check_if_feasible_raises: "edge_length < L_max".
check_if_feasible_raises_Strict(gc, L_max) ==
    \/ L_max < 0
    \/ \E e \in Range(gc.end_nodes) :
          \A v \in Neighbours(gc.graph, e) : gc.graph.length[{e, v}] >= L_max

\* Formulation._check_if_feasible: TRUE when it raises ValueError.
check_if_feasible_raises(gc, L_max) ==
    \/ L_max < 0
    \/ \E e \in Range(gc.end_nodes) :
          \A v \in Neighbours(gc.graph, e) : gc.graph.length[{e, v}] > L_max

\* The checks of Formulation.__init__, in its order: TRUE when one raises.
init_raises(gc, N_max, L_max, D, K, alpha) ==
    \/ N_max < 1
    \/ check_if_feasible_raises(gc, L_max)
    \/ D < 0
    \/ K < 1 \/ K > gc.num_repeater_nodes + 1
    \/ alpha < 0

\* Faulty variant of stored_N_max: the clamp applied unconditionally.
stored_N_max_Always(gc, N_max) == gc.num_repeater_nodes

\* The value Formulation.__init__ stores in self.N_max.
stored_N_max(gc, N_max) ==
    IF N_max > gc.num_repeater_nodes THEN gc.num_repeater_nodes ELSE N_max

\* The value Formulation.__init__ stores in self.D.
stored_D(gc, D) ==
    IF D > gc.num_unique_pairs THEN gc.num_unique_pairs ELSE D

\* The fields of a Formulation before _add_constraints / _add_variables.
BaseFormulation(kind, gc, N_max, L_max, D, K, alpha) ==
    [kind |-> kind, state |-> "built",
     N_max |-> stored_N_max(gc, N_max), L_max |-> L_max,
     D |-> stored_D(gc, D), K |-> K, alpha |-> alpha,
     rows |-> <<>>, cols |-> <<>>, varmap |-> <<>>]

NoFormulation(kind, st) ==
    [kind |-> kind, state |-> st, N_max |-> 0, L_max |-> 0, D |-> 0, K |-> 0,
     alpha |-> 0, rows |-> <<>>, cols |-> <<>>, varmap |-> <<>>]

\* Faulty variant of variables_add: columns numbered from 1.
variables_add_OneBased(num_cols) == num_cols + 1

\* cplex.variables.add(...)[0] for one new column when the problem holds
\* num_cols columns: the solver numbers its columns from 0.
variables_add(num_cols) == num_cols

\* The variable loop after the y columns: items is the sequence of
\* <<column, varmap entry>>; self.varmap[cplex_var[0]] = entry, a later
\* entry replacing an earlier one of the same key.
AddAllMapped(ycols, items) ==
    LET key(n) == variables_add(Len(ycols) + n - 1)
        at(i) == CHOOSE n \in 1..Len(items) :
                     key(n) = i /\ \A m \in (n + 1)..Len(items) : key(m) # i
    IN [cols |-> ycols \o [n \in 1..Len(items) |-> items[n][1]],
        varmap |-> [i \in {key(n) : n \in 1..Len(items)} |-> items[at(i)][2]]]

EmptyMap == [i \in {} |-> 0]

\* ---------------------------------------------------- LinkBasedFormulation
\* LinkBasedFormulation._add_constraints, the rows in the order added.
LinkBased_rows(gc, N_max, K) ==
    LET reps == gc.possible_rep_nodes
        link_xy == [n \in 1..Len(reps) |->
                       Row(ConName("LinkXYCon", NoPair, reps[n], 0), "L", 0)]
        perK(q, k) ==
            <<Row(ConName("SourceCon", q, "", k), "E", 1)>>
            \o [n \in 1..Len(reps) |->
                   Row(ConName("FlowCon", q, reps[n], k), "E", 0)]
            \o <<Row(ConName("SinkCon", q, "", k), "E", -1),
                 Row(ConName("MaxRepCon", q, "", k), "L", N_max)>>
        perPair(q) ==
            <<Row(ConName("STCon", q, "", 0), "L", 1)>>
            \o [n \in 1..(Len(reps) + 1) |->
                   Row(ConName("DisLinkCon", q, (reps \o <<q[1]>>)[n], 0), "L", 1)]
            \o Flatten([k \in 1..K |-> perK(q, k)])
    IN link_xy
       \o Flatten([p \in 1..Len(gc.unique_end_node_pairs) |->
                      perPair(gc.unique_end_node_pairs[p])])

\* Faulty variant of LinkBased_column: the DisLinkCon rows left out.
LinkBased_column_NoDisjoint(q, i, j, k) ==
    IF i = q[1]
    THEN IF j = q[2]
         THEN SparsePair(<<ConName("SourceCon", q, "", k),
                           ConName("SinkCon", q, "", k),
                           ConName("STCon", q, "", 0)>>,
                         <<1, -1, 1>>)
         ELSE SparsePair(<<ConName("SourceCon", q, "", k),
                           ConName("FlowCon", q, j, k),
                           ConName("MaxRepCon", q, "", k),
                           ConName("LinkXYCon", NoPair, j, 0)>>,
                         <<1, -1, 1, 1>>)
    ELSE IF j = q[2]
         THEN SparsePair(<<ConName("SinkCon", q, "", k),
                           ConName("FlowCon", q, i, k)>>,
                         <<-1, 1>>)
         ELSE SparsePair(<<ConName("FlowCon", q, i, k),
                           ConName("FlowCon", q, j, k),
                           ConName("MaxRepCon", q, "", k),
                           ConName("LinkXYCon", NoPair, j, 0)>>,
                         <<1, -1, 1, 1>>)

\* The column of x_{ij}^{q,k}: the four cases of _add_variables.
LinkBased_column(q, i, j, k) ==
    IF i = q[1]
    THEN IF j = q[2]
         THEN SparsePair(<<ConName("SourceCon", q, "", k),
                           ConName("SinkCon", q, "", k),
                           ConName("STCon", q, "", 0)>>,
                         <<1, -1, 1>>)
         ELSE SparsePair(<<ConName("SourceCon", q, "", k),
                           ConName("FlowCon", q, j, k),
                           ConName("MaxRepCon", q, "", k),
                           ConName("DisLinkCon", q, j, 0),
                           ConName("LinkXYCon", NoPair, j, 0)>>,
                         <<1, -1, 1, 1, 1>>)
    ELSE IF j = q[2]
         THEN SparsePair(<<ConName("SinkCon", q, "", k),
                           ConName("FlowCon", q, i, k)>>,
                         <<-1, 1>>)
         ELSE SparsePair(<<ConName("FlowCon", q, i, k),
                           ConName("FlowCon", q, j, k),
                           ConName("MaxRepCon", q, "", k),
                           ConName("DisLinkCon", q, j, 0),
                           ConName("LinkXYCon", NoPair, j, 0)>>,
                         <<1, -1, 1, 1, 1>>)

\* Faulty variant of y_columns: -(D + 1) in the linking row.
y_columns_OneMore(gc, D, linkcon) ==
    [n \in 1..gc.num_repeater_nodes |->
        Column(VarName("y", NoPair, gc.possible_rep_nodes[n], "", 0), AlphaDen,
               SparsePair(<<ConName(linkcon, NoPair, gc.possible_rep_nodes[n], 0)>>,
                          <<-(D + 1)>>))]

\* Faulty variant of y_columns: the objective coefficient left out.
y_columns_NoObjective(gc, D, linkcon) ==
    [n \in 1..gc.num_repeater_nodes |->
        Column(VarName("y", NoPair, gc.possible_rep_nodes[n], "", 0), 0,
               SparsePair(<<ConName(linkcon, NoPair, gc.possible_rep_nodes[n], 0)>>,
                          <<-D>>))]

\* The y columns of either formulation: objective 1.0, -D in the linking row.
y_columns(gc, D, linkcon) ==
    [n \in 1..gc.num_repeater_nodes |->
        Column(VarName("y", NoPair, gc.possible_rep_nodes[n], "", 0), AlphaDen,
               SparsePair(<<ConName(linkcon, NoPair, gc.possible_rep_nodes[n], 0)>>,
                          <<-D>>))]

\* Faulty variant of LinkBased_link_allowed: no length cutoff.
LinkBased_link_allowed_Always(gc, L_max, i, j) == TRUE

\* TRUE when the link i -> j gets variables: its shortest path fits L_max.
LinkBased_link_allowed(gc, L_max, i, j) ==
    single_source_dijkstra(gc.graph, i, j)[1] <= L_max

\* The <<column, varmap entry>> of every x variable, in creation order.
LinkBased_items(gc, L_max, K, alpha) ==
    LET reps == gc.possible_rep_nodes
        forD(q, i, j, d) ==
            [k \in 1..K |->
                <<Column(VarName("x", q, i, j, k), alpha * d[1],
                         LinkBased_column(q, i, j, k)),
                  <<q, d[2], d[1]>>>>]
        forK(q, i, j) == forD(q, i, j, single_source_dijkstra(gc.graph, i, j))
        forJ(q, i) ==
            Flatten([n \in 1..(Len(reps) + 1) |->
                LET j == (reps \o <<q[2]>>)[n]
                IN IF i # j /\ LinkBased_link_allowed(gc, L_max, i, j)
                   THEN forK(q, i, j) ELSE <<>>])
        forI(q) ==
            Flatten([n \in 1..(Len(reps) + 1) |-> forJ(q, (reps \o <<q[1]>>)[n])])
    IN Flatten([p \in 1..Len(gc.unique_end_node_pairs) |->
                   forI(gc.unique_end_node_pairs[p])])

\* LinkBasedFormulation(graph_container, N_max, L_max, K, D, alpha)
LinkBasedFormulation(gc, N_max, L_max, D, K, alpha) ==
    IF init_raises(gc, N_max, L_max, D, K, alpha)
    THEN NoFormulation("Link", "ValueError")
    ELSE LET base == BaseFormulation("Link", gc, N_max, L_max, D, K, alpha)
             with(added) == [base EXCEPT !.rows = LinkBased_rows(gc, base.N_max, K),
                                         !.cols = added.cols,
                                         !.varmap = added.varmap]
         IN with(AddAllMapped(y_columns(gc, base.D, "LinkXYCon"),
                              LinkBased_items(gc, L_max, K, alpha)))

\* ---------------------------------------------------- PathBasedFormulation
\* PathBasedFormulation._add_constraints, the rows.
PathBased_rows(gc, K) ==
    LET reps == gc.possible_rep_nodes
        pairs == gc.unique_end_node_pairs
    IN [p \in 1..Len(pairs) |-> Row(ConName("PairCon", pairs[p], "", 0), "E", K)]
       \o [n \in 1..Len(reps) |->
              Row(ConName("LinkCon", NoPair, reps[n], 0), "L", 0)]
       \o Flatten([p \in 1..Len(pairs) |->
              [n \in 1..(Len(reps) + 1) |->
                  Row(ConName("NodeDisjointCon", pairs[p],
                              (reps \o <<pairs[p][1]>>)[n], 0), "L", 1)]])

RECURSIVE generate_paths_OffByOne(_, _, _, _, _, _, _)
\* Faulty variant of generate_paths: "len(r_up) <= N_max".
generate_paths_OffByOne(gc, L_max, N_max, path, sink, r_up, w_p) ==
    LET reps == gc.possible_rep_nodes
        direct(toSink) ==
            IF toSink[1] <= L_max
            THEN << <<path \o Rest(toSink[2]), r_up, w_p + toSink[1]>> >>
            ELSE <<>>
        step(rep_node, d) ==
            IF d[1] <= L_max
            THEN generate_paths_OffByOne(gc, L_max, N_max, path \o Rest(d[2]), sink,
                     Append(r_up, rep_node), w_p + d[1])
            ELSE <<>>
        via(rep_node) ==
            IF ~Contains(r_up, rep_node)
               /\ rep_node \in descendants(gc.graph, Last(path))
            THEN step(rep_node,
                      single_source_dijkstra(gc.graph, Last(path), rep_node))
            ELSE <<>>
    IN direct(single_source_dijkstra(gc.graph, Last(path), sink))
       \o (IF Len(r_up) <= N_max
           THEN Flatten([n \in 1..Len(reps) |-> via(reps[n])])
           ELSE <<>>)

RECURSIVE generate_paths(_, _, _, _, _, _, _)
\* PathBasedFormulation._generate_paths: the tuples (full path, r_up, w_p) it
\* appends to all_paths, in order.
generate_paths(gc, L_max, N_max, path, sink, r_up, w_p) ==
    LET reps == gc.possible_rep_nodes
        direct(toSink) ==
            IF toSink[1] <= L_max
            THEN << <<path \o Rest(toSink[2]), r_up, w_p + toSink[1]>> >>
            ELSE <<>>
        step(rep_node, d) ==
            IF d[1] <= L_max
            THEN generate_paths(gc, L_max, N_max, path \o Rest(d[2]), sink,
                     Append(r_up, rep_node), w_p + d[1])
            ELSE <<>>
        via(rep_node) ==
            IF ~Contains(r_up, rep_node)
               /\ rep_node \in descendants(gc.graph, Last(path))
            THEN step(rep_node,
                      single_source_dijkstra(gc.graph, Last(path), rep_node))
            ELSE <<>>
    IN direct(single_source_dijkstra(gc.graph, Last(path), sink))
       \o (IF Len(r_up) < N_max
           THEN Flatten([n \in 1..Len(reps) |-> via(reps[n])])
           ELSE <<>>)

\* Faulty variant of PathBased_column: the LinkCon rows left out.
PathBased_column_NoLink(q, r_up) ==
    LET indices == <<ConName("PairCon", q, "", 0)>>
                   \o [n \in 1..Len(r_up) |-> ConName("NodeDisjointCon", q, r_up[n], 0)]
    IN SparsePair(indices, [n \in 1..Len(indices) |-> 1])

\* Faulty variant of PathBased_column: the NodeDisjointCon rows left out.
PathBased_column_NoDisjoint(q, r_up) ==
    LET indices == <<ConName("PairCon", q, "", 0)>>
                   \o [n \in 1..Len(r_up) |-> ConName("LinkCon", NoPair, r_up[n], 0)]
    IN SparsePair(indices, [n \in 1..Len(indices) |-> 1])

\* The column of a path variable: its pair row and the rows of its repeaters.
PathBased_column(q, r_up) ==
    LET indices == <<ConName("PairCon", q, "", 0)>>
                   \o [n \in 1..Len(r_up) |-> ConName("LinkCon", NoPair, r_up[n], 0)]
                   \o [n \in 1..Len(r_up) |-> ConName("NodeDisjointCon", q, r_up[n], 0)]
    IN SparsePair(indices, [n \in 1..Len(indices) |-> 1])

\* The <<column, varmap entry>> of every path variable, in creation order.
PathBased_items(gc, L_max, N_max, alpha) ==
    LET forPair(q) ==
            LET all_paths == generate_paths(gc, L_max, N_max, <<q[1]>>, q[2], <<>>, 0)
            IN [n \in 1..Len(all_paths) |->
                   LET tup == all_paths[n]
                   IN <<Column(VarName("x", NoPair, "", "", 0), alpha * tup[3],
                               PathBased_column(q, tup[2])),
                        <<q, tup[1], tup[2], tup[3]>>>>]
    IN Flatten([p \in 1..Len(gc.unique_end_node_pairs) |->
                   forPair(gc.unique_end_node_pairs[p])])

\* PathBasedFormulation(graph_container, L_max, N_max, K, D, alpha)
PathBasedFormulation(gc, N_max, L_max, D, K, alpha) ==
    IF init_raises(gc, N_max, L_max, D, K, alpha)
    THEN NoFormulation("Path", "ValueError")
    ELSE LET base == BaseFormulation("Path", gc, N_max, L_max, D, K, alpha)
             with(added) == [base EXCEPT !.rows = PathBased_rows(gc, K),
                                         !.cols = added.cols,
                                         !.varmap = added.varmap]
         IN with(AddAllMapped(y_columns(gc, base.D, "LinkCon"),
                              PathBased_items(gc, L_max, base.N_max, alpha)))

\* ------------------------------------------------------------- cplex.solve
\* The coefficient of column c in the row named r.
Coef(c, r) ==
    LET hits == {n \in 1..Len(c.column.ind) : c.column.ind[n] = r}
    IN SumSet(hits, c.column.val)

RowHolds(row, lhs) ==
    IF row.sense = "L" THEN lhs <= row.rhs
    ELSE IF row.sense = "E" THEN lhs = row.rhs
    ELSE lhs >= row.rhs

\* The objective value of a, in units of 1 / AlphaDen.
Objective(form, a) == SumSet(a, [n \in 1..Len(form.cols) |-> form.cols[n].obj])

\* The constraint matrix as the solver holds it: for every row its sense,
\* right-hand side, the coefficient of every column, and for every column
\* position n the least and greatest value the columns after n can add.
Tableau(form) ==
    LET N == Len(form.cols)
        coef(r) == [m \in 1..N |-> Coef(form.cols[m], form.rows[r].name)]
        row(r, c) == [sense |-> form.rows[r].sense,
                      rhs |-> form.rows[r].rhs,
                      coef |-> c,
                      used |-> {m \in 1..N : c[m] # 0},
                      lo |-> [n \in 1..N |->
                                 SumSet({m \in (n + 1)..N : c[m] < 0}, c)],
                      hi |-> [n \in 1..N |->
                                 SumSet({m \in (n + 1)..N : c[m] > 0}, c)]]
    IN [N |-> N,
        rows |-> [r \in 1..Len(form.rows) |-> row(r, coef(r))]]

\* With the columns 1..n decided as in s, can the rows column n appears in
\* still be satisfied by some choice of the columns after n?
Viable(T, s, n) ==
    \A r \in 1..Len(T.rows) :
        LET row == T.rows[r]
        IN n \in row.used =>
              LET done == SumSet(s \cap row.used, row.coef)
              IN IF row.sense = "L" THEN done + row.lo[n] <= row.rhs
                 ELSE IF row.sense = "E"
                      THEN done + row.lo[n] <= row.rhs /\ row.rhs <= done + row.hi[n]
                 ELSE done + row.hi[n] >= row.rhs

RECURSIVE Branch(_, _, _, _)
\* The 0/1 choices for the columns 1..hi that extend a choice of S for the
\* columns before lo and that no row rules out yet; the columns are taken
\* in order, lo..hi in two halves.
Branch(T, S, lo, hi) ==
    IF S = {} \/ lo > hi THEN S
    ELSE IF lo = hi
    THEN LET both == {IF b = 1 THEN s \cup {lo} ELSE s : s \in S, b \in {0, 1}}
         IN {s \in both : Viable(T, s, lo)}
    ELSE LET mid == (lo + hi) \div 2
             left == Branch(T, S, lo, mid)
         IN Branch(T, left, mid + 1, hi)

\* a satisfies every row of the tableau.
SatisfiesAll(T, a) ==
    \A r \in 1..Len(T.rows) :
        RowHolds(T.rows[r], SumSet(a \cap T.rows[r].used, T.rows[r].coef))

\* Every assignment of the binary columns that satisfies all rows.
FeasibleSet(form) ==
    LET within(T) == {a \in Branch(T, {{}}, 1, T.N) : SatisfiesAll(T, a)}
    IN within(Tableau(form))

\* The assignments cplex.solve() may end with: the feasible ones of least
\* objective value.
OptimalSet(form) ==
    LET least(F, obj) == {a \in F : \A b \in F : obj[a] <= obj[b]}
        valued(F) == least(F, [a \in F |-> Objective(form, a)])
    IN valued(FeasibleSet(form))

\* cplex.solution after solve(): status string, values, objective value.
CplexSolution(form, a) ==
    [status |-> "optimal",
     values |-> [n \in 1..Len(form.cols) |-> IF n \in a THEN 1 ELSE 0],
     objective |-> Objective(form, a)]

CplexInfeasible == [status |-> "infeasible", values |-> <<>>, objective |-> 0]

\* ---------------------------------------------------------------- Solution
\* Solution._interpret_variables: the varmap entries of the chosen x
\* variables and the names of the chosen repeater nodes, in index order.
interpret_variables(form, sol) ==
    LET n == Len(form.cols)
        chosen(var) == SelectSeq([idx \in 1..n |-> idx],
                                 LAMBDA idx : sol.values[idx] > 0
                                              /\ form.cols[idx].name.var = var)
        xs == chosen("x")
        ys == chosen("y")
    IN [x_variables_chosen |-> [m \in 1..Len(xs) |-> form.varmap[xs[m] - 1]],
        repeater_nodes_chosen |-> [m \in 1..Len(ys) |-> form.cols[ys[m]].name.i]]

\* list.remove(e): drops the first element equal to e.
Remove(L, e) ==
    IF ~Contains(L, e) THEN L
    ELSE LET at == CHOOSE i \in 1..Len(L) : L[i] = e /\ \A j \in 1..(i - 1) : L[j] # e
         IN SubSeq(L, 1, at - 1) \o SubSeq(L, at + 1, Len(L))

\* round(n / d) of Python 3 for integers n >= 0, d > 0: half to even.
RoundDiv(n, d) ==
    LET q == n \div d
        r == n % d
    IN IF 2 * r < d THEN q
       ELSE IF 2 * r > d THEN q + 1
       ELSE IF q % 2 = 0 THEN q ELSE q + 1

RECURSIVE RemoveCyclesInner(_, _, _)
\* "for el2 in L" of the cycle removal, L changing under the iteration.
RemoveCyclesInner(L, el1, j) ==
    IF j > Len(L) THEN L
    ELSE LET el2 == L[j]
         IN IF Last(el1[2]) = Head(el2[2]) /\ Head(el1[2]) = Last(el2[2])
            THEN RemoveCyclesInner(Remove(Remove(L, el1), el2), el1, j + 1)
            ELSE RemoveCyclesInner(L, el1, j + 1)

RECURSIVE RemoveCyclesOuter(_, _)
\* "for el1 in L" of the cycle removal.
RemoveCyclesOuter(L, i) ==
    IF i > Len(L) THEN L
    ELSE RemoveCyclesOuter(RemoveCyclesInner(L, L[i], 1), i + 1)

RECURSIVE FollowPass(_, _, _)
\* One run of "for edge in elementary_links_current_pair" inside the while
\* loop; st = [L, path, reps, num_el, cost, degree].
FollowPass(st, q, i) ==
    IF i > Len(st.L) THEN st
    ELSE LET edge == st.L[i]
         IN IF Len(st.path) = 1 /\ Head(edge[2]) = q[1]
            THEN FollowPass([st EXCEPT !.path = edge[2],
                                       !.cost = @ + edge[3],
                                       !.num_el = @ + 1,
                                       !.L = Remove(@, edge)], q, i + 1)
            ELSE IF Len(st.path) > 1 /\ Head(edge[2]) = Last(st.path)
            THEN FollowPass([st EXCEPT !.reps = Append(@, Last(st.path)),
                                       !.degree[Last(st.path)] = @ + 1,
                                       !.path = SubSeq(st.path, 1, Len(st.path) - 1)
                                                \o edge[2],
                                       !.cost = @ + edge[3],
                                       !.num_el = @ + 1,
                                       !.L = Remove(@, edge)], q, i + 1)
            ELSE FollowPass(st, q, i + 1)

RECURSIVE FollowWhile(_, _)
\* "while path[-1] != q[1]": a pass that changes nothing means the loop
\* never ends, recorded as hang.
FollowWhile(st, q) ==
    IF Last(st.path) = q[2] THEN st
    ELSE LET after(nx) ==
                 IF nx = st THEN [st EXCEPT !.hang = TRUE] ELSE FollowWhile(nx, q)
         IN after(FollowPass(st, q, 1))

RECURSIVE LinkBased_paths(_, _, _)
\* "for _ in range(K)": acc = [L, degree, hang, paths, num_el_used,
\* repeater_nodes_used, path_cost, total_cost].
LinkBased_paths(acc, q, k) ==
    IF k = 0 \/ acc.hang THEN acc
    ELSE LET found(st) ==
                 [L |-> st.L, degree |-> st.degree, hang |-> st.hang,
                  paths |-> Append(acc.paths, st.path),
                  num_el_used |-> Append(acc.num_el_used, <<st.num_el>>),
                  repeater_nodes_used |-> Append(acc.repeater_nodes_used, st.reps),
                  path_cost |-> Append(acc.path_cost, <<st.cost>>),
                  total_cost |-> acc.total_cost + st.cost]
         IN LinkBased_paths(
                found(FollowWhile([L |-> acc.L, path |-> <<"None">>, reps |-> <<>>,
                                   num_el |-> 0, cost |-> 0, degree |-> acc.degree,
                                   hang |-> FALSE], q)), q, k - 1)

\* The link-based branch of Solution._process_x_variables for one pair.
LinkBased_process_pair(form, iv, q, degree) ==
    LET mine == SelectSeq(iv.x_variables_chosen, LAMBDA tup : tup[1] = q)
        result(L, r) ==
            [degree |-> r.degree, hang |-> r.hang, num_el |-> Len(L),
             total_cost |-> r.total_cost,
             data |-> [paths |-> r.paths, num_el_used |-> r.num_el_used,
                       repeater_nodes_used |-> r.repeater_nodes_used,
                       path_cost |-> r.path_cost]]
        follow(L) ==
            result(L, LinkBased_paths([L |-> L, degree |-> degree, hang |-> FALSE,
                                       paths |-> <<>>, num_el_used |-> <<>>,
                                       repeater_nodes_used |-> <<>>,
                                       path_cost |-> <<>>, total_cost |-> 0],
                                      q, form.K))
    IN follow(RemoveCyclesOuter(mine, 1))

RECURSIVE BumpDegree(_, _)
\* repeater_node_degree[u] += 1 for every u of r_up.
BumpDegree(degree, r_up) ==
    IF r_up = <<>> THEN degree
    ELSE BumpDegree([degree EXCEPT ![Head(r_up)] = @ + 1], Tail(r_up))

RECURSIVE PathBased_paths(_, _, _, _)
\* "for k in range(self.formulation.K)" of the path-based branch.
PathBased_paths(acc, props, k, K) ==
    IF k > K THEN acc
    ELSE LET tup == props[k]
         IN PathBased_paths(
               [degree |-> BumpDegree(acc.degree, tup[3]),
                paths |-> Append(acc.paths, tup[2]),
                num_el_used |-> Append(acc.num_el_used, Len(tup[3]) + 1),
                repeater_nodes_used |-> Append(acc.repeater_nodes_used, tup[3]),
                path_cost |-> Append(acc.path_cost, tup[4]),
                total_cost |-> acc.total_cost + tup[4],
                num_el |-> acc.num_el + Len(tup[3]) + 1], props, k + 1, K)

\* The path-based branch of Solution._process_x_variables for one pair.
PathBased_process_pair(form, iv, q, degree) ==
    LET path_properties == SelectSeq(iv.x_variables_chosen, LAMBDA tup : tup[1] = q)
        result(r) ==
            [degree |-> r.degree, hang |-> FALSE, num_el |-> r.num_el,
             total_cost |-> r.total_cost,
             data |-> [paths |-> r.paths, num_el_used |-> r.num_el_used,
                       repeater_nodes_used |-> r.repeater_nodes_used,
                       path_cost |-> r.path_cost]]
    IN result(PathBased_paths([degree |-> degree, paths |-> <<>>,
                               num_el_used |-> <<>>, repeater_nodes_used |-> <<>>,
                               path_cost |-> <<>>, total_cost |-> 0, num_el |-> 0],
                              path_properties, 1, form.K))

RECURSIVE process_pairs(_, _, _, _)
\* "for q in unique_end_node_pairs": acc = [degree, hang, total_cost,
\* tot_num_el, path_data].
process_pairs(form, iv, pairs, acc) ==
    IF pairs = <<>> \/ acc.hang THEN acc
    ELSE LET q == Head(pairs)
             added(r) ==
                 [degree |-> r.degree, hang |-> r.hang,
                  total_cost |-> acc.total_cost + r.total_cost,
                  tot_num_el |-> acc.tot_num_el + r.num_el,
                  path_data |-> Append(acc.path_data, <<q, r.data>>)]
         IN process_pairs(form, iv, Tail(pairs),
                added(IF form.kind = "Path"
                      THEN PathBased_process_pair(form, iv, q, acc.degree)
                      ELSE LinkBased_process_pair(form, iv, q, acc.degree)))

RECURSIVE Deconstruct(_, _, _, _)
\* The elementary links of a chosen path: cut at every node that is in r_up.
Deconstruct(full_path, r_up, starting_node, i) ==
    IF i > Len(full_path) THEN << <<starting_node, Last(full_path)>> >>
    ELSE IF Contains(r_up, full_path[i])
         THEN << <<starting_node, full_path[i]>> >>
              \o Deconstruct(full_path, r_up, full_path[i], i + 1)
         ELSE Deconstruct(full_path, r_up, starting_node, i + 1)

\* self.used_elementary_links
used_elementary_links(form, iv) ==
    Flatten([n \in 1..Len(iv.x_variables_chosen) |->
        LET tup == iv.x_variables_chosen[n]
        IN IF form.kind = "Path" /\ tup[3] # <<>>
           THEN Deconstruct(tup[2], tup[3], Head(tup[2]), 2)
           ELSE << <<Head(tup[2]), Last(tup[2])>> >>])

NoSolution ==
    [status |-> "none", feasible |-> FALSE, x_variables_chosen |-> <<>>,
     repeater_nodes_chosen |-> <<>>, overall_data |-> <<>>, path_data |-> <<>>,
     used_elementary_links |-> <<>>, hang |-> FALSE]

\* Solution(formulation): the parsed answer of the solver.
Solution(gc, form, sol) ==
    IF sol.status # "optimal"
    THEN [NoSolution EXCEPT !.status = sol.status]
    ELSE LET parsed(iv, r) ==
                 [status |-> sol.status, feasible |-> TRUE,
                  x_variables_chosen |-> iv.x_variables_chosen,
                  repeater_nodes_chosen |-> iv.repeater_nodes_chosen,
                  overall_data |->
                      [opt_obj_val |-> sol.objective,
                       num_reps |-> Len(iv.repeater_nodes_chosen),
                       tot_path_cost |-> r.total_cost,
                       avg_path_len |-> RoundDiv(r.total_cost, gc.num_unique_pairs),
                       tot_num_el |-> r.tot_num_el,
                       repeater_node_degree |-> r.degree],
                  path_data |-> r.path_data,
                  used_elementary_links |-> used_elementary_links(form, iv),
                  hang |-> r.hang]
             process(iv) ==
                 parsed(iv, process_pairs(form, iv, gc.unique_end_node_pairs,
                            [degree |-> [u \in Range(iv.repeater_nodes_chosen) |-> 0],
                             hang |-> FALSE, total_cost |-> 0, tot_num_el |-> 0,
                             path_data |-> <<>>]))
         IN process(interpret_variables(form, sol))

\* ------------------------------------------------------------ the program
VARIABLES
    graph_container,   \* the GraphContainer both formulations are built on
    params,            \* the arguments N_max, L_max, D, K, alpha as passed
    link_based_form,   \* the LinkBasedFormulation object
    sol_LBF,           \* the Solution of link_based_form.solve()
    path_based_form,   \* the PathBasedFormulation object
    sol_PBF,           \* the Solution of path_based_form.solve()
    pc,                \* where the driver stands
    after_end,         \* what a call on a solver object gives once end() released it
    gen,               \* generate_feasible_graphs and its caller: arguments, locals, position
    scans,             \* the RandomGraphScan objects
    lists,             \* the list objects the scans' graphs attributes refer to
    last,              \* the RandomGraphScan call made last and how it ended
    program            \* a Program of programs.py and an assignment of its variables

vars == <<graph_container, params, link_based_form, sol_LBF,
          path_based_form, sol_PBF, pc, after_end, gen, scans, lists, last,
          program>>

\* The state of random_graph_scan.py and of programs.py, which
\* compare_formulations leaves alone.
scan_vars == <<after_end, gen, scans, lists, last, program>>

\* random_graph_scan.py and programs.py not in use.
ScanIdle ==
    /\ after_end = "raises"
    /\ gen = [pc |-> "idle"]
    /\ scans = <<>>
    /\ lists = <<>>
    /\ last = [op |-> "none"]
    /\ program = [pc |-> "idle"]

\* The graphs of one shape: every edge of the shape with a length 1..MaxLen,
\* the long and short edges at theirs.
GraphsOf(shape) ==
    LET nodes == SubSeq(EndNames, 1, shape.ends) \o SubSeq(RepNames, 1, shape.reps)
        ends == Range(SubSeq(EndNames, 1, shape.ends))
    IN {[nodes |-> nodes,
         type |-> [n \in Range(nodes) |->
                      IF n \in ends THEN "end_node" ELSE "repeater_node"],
         length |-> [e \in AllEdges(nodes) |->
                        IF e \in shape.edges THEN len[e] ELSE 0]]
        : len \in {l \in [shape.edges -> 1..MaxLen] :
                      /\ \A e \in shape.long : l[e] = MaxLen
                      /\ \A e \in shape.short : l[e] = 1}}

Graphs == UNION {GraphsOf(shape) : shape \in Shapes}

Alphas == {0, 1}

\* The arguments that pass the checks of Formulation.__init__ on gc and are
\* not changed by its clamping.
Params(gc) ==
    [N_max : 1..gc.num_repeater_nodes, L_max : 1..MaxLmax,
     D : 0..gc.num_unique_pairs, K : 1..(gc.num_repeater_nodes + 1),
     alpha : Alphas]

Init ==
    /\ \E g \in Graphs :
          /\ Connected(g)
          /\ graph_container = GraphContainer(g)
    /\ params \in Params(graph_container)
    /\ link_based_form = NoFormulation("Link", "none")
    /\ path_based_form = NoFormulation("Path", "none")
    /\ sol_LBF = NoSolution
    /\ sol_PBF = NoSolution
    /\ pc = "start"
    /\ ScanIdle

\* link_based_form = LinkBasedFormulation(graph_container=..., ...)
ConstructLinkBased ==
    /\ pc = "start"
    /\ link_based_form' = LinkBasedFormulation(graph_container, params.N_max,
                              params.L_max, params.D, params.K, params.alpha)
    /\ pc' = IF link_based_form'.state = "ValueError" THEN "raised" ELSE "lbf_built"
    /\ UNCHANGED <<graph_container, params, sol_LBF, path_based_form, sol_PBF>>
    /\ UNCHANGED scan_vars

\* Formulation.solve(): cplex.solve() and Solution(self).
solve(gc, form) ==
    LET answers(O) == IF O = {} THEN {CplexInfeasible}
                      ELSE {CplexSolution(form, a) : a \in O}
    IN {Solution(gc, form, sol) : sol \in answers(OptimalSet(form))}

\* sol_LBF, _ = link_based_form.solve()
SolveLinkBased ==
    /\ pc = "lbf_built"
    /\ sol_LBF' \in solve(graph_container, link_based_form)
    /\ pc' = "lbf_solved"
    /\ UNCHANGED <<graph_container, params, link_based_form, path_based_form, sol_PBF>>
    /\ UNCHANGED scan_vars

\* path_based_form = PathBasedFormulation(graph_container=..., ...)
ConstructPathBased ==
    /\ pc = "lbf_solved"
    /\ path_based_form' = PathBasedFormulation(graph_container, params.N_max,
                              params.L_max, params.D, params.K, params.alpha)
    /\ pc' = IF path_based_form'.state = "ValueError" THEN "raised" ELSE "pbf_built"
    /\ UNCHANGED <<graph_container, params, link_based_form, sol_LBF, sol_PBF>>
    /\ UNCHANGED scan_vars

\* sol_PBF, _ = path_based_form.solve()
SolvePathBased ==
    /\ pc = "pbf_built"
    /\ sol_PBF' \in solve(graph_container, path_based_form)
    /\ pc' = "pbf_solved"
    /\ UNCHANGED <<graph_container, params, link_based_form, sol_LBF, path_based_form>>
    /\ UNCHANGED scan_vars

\* Formulation.clear(): cplex.end() and varmap = {}.
clear(form) == [form EXCEPT !.state = "cleared", !.varmap = EmptyMap,
                            !.rows = <<>>, !.cols = <<>>]

\* link_based_form.clear(); path_based_form.clear()
Clear ==
    /\ pc = "pbf_solved"
    /\ link_based_form' = clear(link_based_form)
    /\ path_based_form' = clear(path_based_form)
    /\ pc' = "cleared"
    /\ UNCHANGED <<graph_container, params, sol_LBF, sol_PBF>>
    /\ UNCHANGED scan_vars

Next ==
    \/ ConstructLinkBased
    \/ SolveLinkBased
    \/ ConstructPathBased
    \/ SolvePathBased
    \/ Clear

Spec == Init /\ [][Next]_vars

\* ------------------------------------------------- vocabulary of the claims
Pairs == Range(graph_container.unique_end_node_pairs)
RepNodes == Range(graph_container.possible_rep_nodes)

\* The D that Formulation.__init__ stores.
StoredD == stored_D(graph_container, params.D)

LinkBuilt == pc = "lbf_built"
PathBuilt == pc = "pbf_built"

\* The columns an assignment sets to 1.
Chosen(form, a) == {form.cols[n] : n \in a}
ChosenX(form, a) == {c \in Chosen(form, a) : c.name.var = "x"}
ChosenY(form, a) == {c.name.i : c \in {c \in Chosen(form, a) : c.name.var = "y"}}

\* Link-based: the elementary links (i, j) chosen for pair q and path k.
LinksOf(form, a, q, k) ==
    {<<c.name.i, c.name.j>> : c \in {c \in ChosenX(form, a) :
                                        c.name.q = q /\ c.name.k = k}}

RECURSIVE ChainsFrom(_, _, _)
\* The node sequences that extend path to sink along links, no node twice.
ChainsFrom(links, path, sink) ==
    IF Last(path) = sink THEN {path}
    ELSE UNION {ChainsFrom(links, Append(path, l[2]), sink) :
                   l \in {l \in links : l[1] = Last(path) /\ ~Contains(path, l[2])}}

\* Link-based: the chains of chosen links from q[0] to q[1] for path k.
Chains(form, a, q, k) == ChainsFrom(LinksOf(form, a, q, k), <<q[1]>>, q[2])

Inner(c) == {c[i] : i \in 2..(Len(c) - 1)}
ChainLinks(c) == {<<c[i], c[i + 1]>> : i \in 1..(Len(c) - 1)}

\* Path-based: the varmap entries (q, full path, r_up, cost) of the chosen
\* path variables, with their column position.
ChosenPaths(form, a) ==
    {<<n, form.varmap[n - 1]>> : n \in {n \in a : form.cols[n].name.var = "x"}}

\* data of pair q in a parsed path_data.
PathData(sol, q) ==
    sol.path_data[CHOOSE n \in 1..Len(sol.path_data) : sol.path_data[n][1] = q][2]

\* ------------------------------------------------------------------ claims
\* C1: in every assignment that satisfies the link-based constraints, every
\* pair q has for every k a chain of chosen elementary links from q[0] to
\* q[1], and two chains of one pair share no repeater node and no
\* elementary link (the direct source-to-sink link included).
C1_DisjointChains ==
    LinkBuilt =>
      \A a \in FeasibleSet(link_based_form) : \A q \in Pairs :
        \A k \in 1..params.K :
          /\ Chains(link_based_form, a, q, k) # {}
          /\ \A k2 \in (1..params.K) \ {k} :
               \A c1 \in Chains(link_based_form, a, q, k) :
                 \A c2 \in Chains(link_based_form, a, q, k2) :
                   /\ Inner(c1) \cap Inner(c2) = {}
                   /\ ChainLinks(c1) \cap ChainLinks(c2) = {}

\* C1 happens: two paths are required and some satisfying assignment routes
\* one of them through a repeater.
C1_Witness ==
    /\ LinkBuilt
    /\ params.K = 2
    /\ \E a \in FeasibleSet(link_based_form) : \E q \in Pairs : \E k \in 1..2 :
          \E c \in Chains(link_based_form, a, q, k) : Len(c) > 2

\* Link-based: the (q, k) paths of a that pass through repeater u.
LinkBased_users(form, a, u) ==
    {qk \in Pairs \X (1..params.K) :
        \E c \in Chains(form, a, qk[1], qk[2]) : u \in Inner(c)}

\* Path-based: the chosen path variables whose r_up holds u.
PathBased_users(form, a, u) ==
    {p \in ChosenPaths(form, a) : Contains(p[2][3], u)}

DegreeWithin(sol, D) ==
    sol.feasible =>
       \A u \in DOMAIN sol.overall_data.repeater_node_degree :
           sol.overall_data.repeater_node_degree[u] <= D

\* C2: in every feasible solution of either formulation at most D chosen
\* paths (over all pairs and all K paths of a pair) use repeater u, and the
\* parsed repeater_node_degree[u] is at most D.
C2_Capacity ==
    /\ LinkBuilt =>
         \A a \in FeasibleSet(link_based_form) : \A u \in RepNodes :
            Cardinality(LinkBased_users(link_based_form, a, u)) <= StoredD
    /\ PathBuilt =>
         \A a \in FeasibleSet(path_based_form) : \A u \in RepNodes :
            Cardinality(PathBased_users(path_based_form, a, u)) <= StoredD
    /\ DegreeWithin(sol_LBF, StoredD)
    /\ DegreeWithin(sol_PBF, StoredD)

\* C2 happens: a parsed solution has a repeater that serves exactly D >= 2
\* paths.
C2_Witness ==
    /\ sol_PBF.feasible
    /\ StoredD >= 2
    /\ \E u \in DOMAIN sol_PBF.overall_data.repeater_node_degree :
          /\ sol_PBF.overall_data.repeater_node_degree[u] = StoredD
          /\ sol_LBF.overall_data.repeater_node_degree[u] = StoredD

\* The repeaters every parsed path goes through are among the chosen ones.
UsedAreChosen(sol) ==
    sol.feasible =>
       \A n \in 1..Len(sol.path_data) :
          \A r \in Range(sol.path_data[n][2].repeater_nodes_used) :
              Range(r) \subseteq Range(sol.repeater_nodes_chosen)

\* C3: in every feasible solution every node entered by a chosen elementary
\* link that is not the sink, and every node in r_up of a chosen path, has
\* its y variable at 1; so it is in repeater_nodes_chosen.
C3_UsedImpliesSelected ==
    /\ LinkBuilt =>
         \A a \in FeasibleSet(link_based_form) :
            \A c \in ChosenX(link_based_form, a) :
               c.name.j # c.name.q[2] => c.name.j \in ChosenY(link_based_form, a)
    /\ PathBuilt =>
         \A a \in FeasibleSet(path_based_form) :
            \A p \in ChosenPaths(path_based_form, a) :
               Range(p[2][3]) \subseteq ChosenY(path_based_form, a)
    /\ UsedAreChosen(sol_LBF)
    /\ UsedAreChosen(sol_PBF)

\* C3 happens: both parsed solutions route a path through a repeater.
C3_Witness ==
    /\ sol_LBF.feasible /\ sol_PBF.feasible
    /\ \E n \in 1..Len(sol_LBF.path_data) :
          \E r \in Range(sol_LBF.path_data[n][2].repeater_nodes_used) : r # <<>>
    /\ \E n \in 1..Len(sol_PBF.path_data) :
          \E r \in Range(sol_PBF.path_data[n][2].repeater_nodes_used) : r # <<>>

G == graph_container.graph

\* Every hop s -> r1 -> ... -> rm -> t has a shortest path of at most L.
HopsWithin(q, r_up, L) ==
    LET stops == <<q[1]>> \o r_up \o <<q[2]>>
    IN \A i \in 1..(Len(stops) - 1) :
          /\ Dist(G, stops[i], stops[i + 1]) >= 0
          /\ Dist(G, stops[i], stops[i + 1]) <= L

LinksWithin(sol, L) ==
    \A n \in 1..Len(sol.used_elementary_links) :
        LET l == sol.used_elementary_links[n]
        IN Dist(G, l[1], l[2]) >= 0 /\ Dist(G, l[1], l[2]) <= L

\* C4: both formulations create a decision variable only for elementary
\* links whose shortest-path length is at most L_max, so every elementary
\* link of a parsed solution has length at most L_max.
C4_LinkLength ==
    /\ LinkBuilt =>
         \A n \in 1..Len(link_based_form.cols) :
            LET c == link_based_form.cols[n]
            IN c.name.var = "x" =>
                  /\ Dist(G, c.name.i, c.name.j) >= 0
                  /\ Dist(G, c.name.i, c.name.j) <= params.L_max
    /\ PathBuilt =>
         \A i \in DOMAIN path_based_form.varmap :
            HopsWithin(path_based_form.varmap[i][1], path_based_form.varmap[i][3],
                       params.L_max)
    /\ LinksWithin(sol_LBF, params.L_max)
    /\ LinksWithin(sol_PBF, params.L_max)

\* C4 happens: the cutoff left out a link between two nodes of the graph,
\* and both solutions were parsed.
C4_Witness ==
    /\ sol_LBF.feasible /\ sol_PBF.feasible
    /\ sol_LBF.used_elementary_links # <<>>
    /\ \E i, j \in Range(G.nodes) : Dist(G, i, j) > params.L_max

PathsWithin(sol, N) ==
    sol.feasible =>
       \A n \in 1..Len(sol.path_data) :
          \A r \in Range(sol.path_data[n][2].repeater_nodes_used) : Len(r) <= N

\* C5: in every feasible solution of either formulation each of the K paths
\* of each pair uses at most N_max repeater nodes.
C5_MaxRepeaters ==
    /\ LinkBuilt =>
         \A a \in FeasibleSet(link_based_form) : \A q \in Pairs :
            \A k \in 1..params.K :
               \A c \in Chains(link_based_form, a, q, k) :
                  Cardinality(Inner(c)) <= params.N_max
    /\ PathBuilt =>
         \A a \in FeasibleSet(path_based_form) :
            \A p \in ChosenPaths(path_based_form, a) : Len(p[2][3]) <= params.N_max
    /\ PathsWithin(sol_LBF, params.N_max)
    /\ PathsWithin(sol_PBF, params.N_max)

\* C5 happens: N_max is below the number of possible repeaters and a parsed
\* path uses exactly N_max of them.
C5_Witness ==
    /\ sol_LBF.feasible /\ sol_PBF.feasible
    /\ params.N_max < graph_container.num_repeater_nodes
    /\ \E n \in 1..Len(sol_LBF.path_data) :
          \E r \in Range(sol_LBF.path_data[n][2].repeater_nodes_used) :
             Len(r) = params.N_max
    /\ \E n \in 1..Len(sol_PBF.path_data) :
          \E r \in Range(sol_PBF.path_data[n][2].repeater_nodes_used) :
             Len(r) = params.N_max

Compared == pc = "pbf_solved"

SameField(f) == sol_LBF.overall_data[f] = sol_PBF.overall_data[f]

\* C6 as stated: for the same graph and parameters with alpha > 0 both
\* formulations are feasible or both infeasible, and when feasible their
\* solutions agree on the number of repeaters, the optimal objective value,
\* the total path cost and the total number of elementary links.
C6_SameSolutionData ==
    Compared /\ params.alpha > 0 =>
       /\ sol_LBF.feasible = sol_PBF.feasible
       /\ sol_LBF.feasible =>
             /\ SameField("num_reps")
             /\ SameField("opt_obj_val")
             /\ SameField("tot_path_cost")
             /\ SameField("tot_num_el")

\* alpha * tot_path_cost < 1: the objective value determines the number of
\* repeaters and the total path cost.
CostBelowOne(sol) == params.alpha * sol.overall_data.tot_path_cost < AlphaDen

\* C6, the part that holds whichever optimum the solver ends with: both
\* formulations are feasible or both infeasible, and when feasible they have
\* the same optimal objective value, hence, while alpha times the total path
\* cost stays below 1, the same number of repeaters and total path cost.
C6_SameOptimum ==
    Compared /\ params.alpha > 0 =>
       /\ sol_LBF.feasible = sol_PBF.feasible
       /\ sol_LBF.feasible =>
             /\ SameField("opt_obj_val")
             /\ CostBelowOne(sol_LBF) /\ CostBelowOne(sol_PBF) =>
                   SameField("num_reps") /\ SameField("tot_path_cost")

\* C6 happens: both formulations were solved with alpha > 0, both are
\* feasible and use a repeater.
C6_Witness ==
    /\ Compared /\ params.alpha > 0
    /\ sol_LBF.feasible /\ sol_PBF.feasible
    /\ sol_LBF.overall_data.num_reps > 0

\* The cost stored in the varmap entry of the column at position n (the last
\* component of the tuple in both formulations).
MappedCost(form, n) == Last(form.varmap[n - 1])

\* number of y at 1, plus alpha times the costs of the chosen x variables,
\* in units of 1 / AlphaDen.
RepeatersPlusCost(form, a) ==
    LET xs == {n \in a : form.cols[n].name.var = "x"}
    IN AlphaDen * Cardinality(ChosenY(form, a))
       + params.alpha * SumSet(xs, [n \in xs |-> MappedCost(form, n)])

ObjectiveAsStated(form) ==
    \A a \in FeasibleSet(form) :
        /\ Objective(form, a) = RepeatersPlusCost(form, a)
        /\ params.alpha = 0 =>
              Objective(form, a) = AlphaDen * Cardinality(ChosenY(form, a))

RECURSIVE SumSeq(_)
SumSeq(s) == IF s = <<>> THEN 0 ELSE Head(s) + SumSeq(Tail(s))

ParsedObjective(sol) ==
    sol.feasible =>
       sol.overall_data.opt_obj_val
          = AlphaDen * sol.overall_data.num_reps
            + params.alpha * SumSeq([n \in 1..Len(sol.x_variables_chosen) |->
                                        Last(sol.x_variables_chosen[n])])

\* C7: the objective of both formulations is the number of y variables at 1
\* plus alpha times the sum of the path costs of the chosen x variables; with
\* alpha = 0 it is the number of selected repeaters.
C7_Objective ==
    /\ LinkBuilt => ObjectiveAsStated(link_based_form)
    /\ PathBuilt => ObjectiveAsStated(path_based_form)
    /\ ParsedObjective(sol_LBF)
    /\ ParsedObjective(sol_PBF)

\* C7 happens: alpha > 0 and the minimum found has a repeater and a path
\* cost, in both formulations.
C7_Witness ==
    /\ Compared /\ params.alpha > 0
    /\ sol_LBF.feasible /\ sol_PBF.feasible
    /\ sol_PBF.overall_data.num_reps > 0
    /\ sol_PBF.overall_data.opt_obj_val
          > AlphaDen * sol_PBF.overall_data.num_reps
    /\ sol_LBF.overall_data.opt_obj_val
          > AlphaDen * sol_LBF.overall_data.num_reps

\* C8: in every feasible solution of the path-based formulation exactly K
\* distinct path variables are chosen per pair and no two of them share a
\* repeater node; path_data[q]['paths'] holds exactly K paths, each from
\* q[0] to q[1].
C8_ExactlyKPaths ==
    /\ PathBuilt =>
         \A a \in FeasibleSet(path_based_form) : \A q \in Pairs :
            LET mine == {p \in ChosenPaths(path_based_form, a) : p[2][1] = q}
            IN /\ Cardinality(mine) = params.K
               /\ \A p1, p2 \in mine :
                     p1 # p2 => Range(p1[2][3]) \cap Range(p2[2][3]) = {}
    /\ sol_PBF.feasible =>
         \A q \in Pairs :
            LET paths == PathData(sol_PBF, q).paths
            IN /\ Len(paths) = params.K
               /\ \A n \in 1..Len(paths) :
                     Head(paths[n]) = q[1] /\ Last(paths[n]) = q[2]

\* C8 happens: two paths per pair were required and found.
C8_Witness ==
    /\ sol_PBF.feasible
    /\ params.K = 2
    /\ \E q \in Pairs : Len(PathData(sol_PBF, q).paths) = 2

\* The sequences r1..rm of pairwise distinct possible repeater nodes with
\* 0 <= m <= N whose hops all have a shortest path of at most L.
FeasibleSequences(q, N, L) ==
    {r \in UNION {[1..m -> RepNodes] : m \in 0..N} :
        /\ \A i, j \in 1..Len(r) : i # j => r[i] # r[j]
        /\ HopsWithin(q, r, L)}

\* C9: for every pair and every sequence of pairwise distinct possible
\* repeater nodes of length 0..N_max whose hops all have shortest-path
\* length at most L_max, exactly one path variable with that r_up exists,
\* and there is no path variable for any other sequence.
C9_AllPathsGenerated ==
    PathBuilt =>
       \A q \in Pairs :
          LET idx == {i \in DOMAIN path_based_form.varmap :
                         path_based_form.varmap[i][1] = q}
          IN /\ \A r \in FeasibleSequences(q, params.N_max, params.L_max) :
                   Cardinality({i \in idx : path_based_form.varmap[i][3] = r}) = 1
             /\ \A i \in idx :
                   path_based_form.varmap[i][3]
                      \in FeasibleSequences(q, params.N_max, params.L_max)

\* C9 happens: a pair has a path over two repeaters and a sequence that the
\* length cutoff excludes.
C9_Witness ==
    /\ PathBuilt
    /\ \E i \in DOMAIN path_based_form.varmap : Len(path_based_form.varmap[i][3]) = 2
    /\ \E q \in Pairs : \E u \in RepNodes : ~HopsWithin(q, <<u>>, params.L_max)

\* The stops q[0], r_up, q[1] appear in this order in the node path.
RECURSIVE VisitsInOrder(_, _)
VisitsInOrder(path, stops) ==
    IF stops = <<>> THEN TRUE
    ELSE IF path = <<>> THEN FALSE
    ELSE IF Head(path) = Head(stops) THEN VisitsInOrder(Tail(path), Tail(stops))
    ELSE VisitsInOrder(Tail(path), stops)

HopCost(q, r_up) ==
    LET stops == <<q[1]>> \o r_up \o <<q[2]>>
    IN SumSeq([i \in 1..(Len(stops) - 1) |-> Dist(G, stops[i], stops[i + 1])])

XIndices(form) == {n - 1 : n \in {n \in 1..Len(form.cols) : form.cols[n].name.var = "x"}}

\* C10: after construction varmap has exactly one entry per x variable,
\* keyed by the variable's solver index, holding the pair the variable was
\* created for and the node path and cost of its elementary link
\* (link-based) or full path (path-based); no y index is a key.
C10_Varmap ==
    /\ LinkBuilt =>
         /\ DOMAIN link_based_form.varmap = XIndices(link_based_form)
         /\ \A i \in DOMAIN link_based_form.varmap :
               LET nm == link_based_form.cols[i + 1].name
                   e == link_based_form.varmap[i]
               IN /\ e[1] = nm.q
                  /\ Head(e[2]) = nm.i /\ Last(e[2]) = nm.j
                  /\ e[3] = Dist(G, nm.i, nm.j)
                  /\ link_based_form.cols[i + 1].obj = params.alpha * e[3]
    /\ PathBuilt =>
         /\ DOMAIN path_based_form.varmap = XIndices(path_based_form)
         /\ \A i \in DOMAIN path_based_form.varmap :
               LET col == path_based_form.cols[i + 1].column
                   e == path_based_form.varmap[i]
               IN /\ col.ind[1] = ConName("PairCon", e[1], "", 0)
                  /\ {col.ind[n].u : n \in 2..Len(col.ind)} = Range(e[3])
                  /\ Head(e[2]) = e[1][1] /\ Last(e[2]) = e[1][2]
                  /\ VisitsInOrder(e[2], <<e[1][1]>> \o e[3] \o <<e[1][2]>>)
                  /\ e[4] = HopCost(e[1], e[3])
                  /\ path_based_form.cols[i + 1].obj = params.alpha * e[4]

\* C10 happens: a formulation with several pairs, y and x variables is built.
C10_Witness ==
    /\ PathBuilt
    /\ Cardinality(Pairs) > 1
    /\ Cardinality(DOMAIN path_based_form.varmap) > Cardinality(Pairs)
    /\ Cardinality(DOMAIN link_based_form.varmap) > Cardinality(Pairs)

\* ------------------------------------- Formulation.__init__ on any arguments
\* The graphs the argument checks are exercised on: three end nodes around
\* one possible repeater node, the edge s-t at length 1.
ArgShapes ==
    { [ends |-> 3, reps |-> 1,
       edges |-> {{"s", "a"}, {"t", "a"}, {"u", "a"}, {"s", "t"}},
       long |-> {}, short |-> {{"s", "t"}}] }

\* Any arguments: below, inside and above what Formulation.__init__ accepts.
AnyParams(gc) ==
    [N_max : -1..(gc.num_repeater_nodes + 1), L_max : -1..MaxLmax,
     D : -1..(gc.num_unique_pairs + 1), K : 0..(gc.num_repeater_nodes + 2),
     alpha : {-1, 1}]

ArgsInit ==
    /\ \E g \in UNION {GraphsOf(shape) : shape \in ArgShapes} :
          /\ Connected(g)
          /\ graph_container = GraphContainer(g)
    /\ params \in AnyParams(graph_container)
    /\ link_based_form = NoFormulation("Link", "none")
    /\ path_based_form = NoFormulation("Path", "none")
    /\ sol_LBF = NoSolution
    /\ sol_PBF = NoSolution
    /\ pc = "start"
    /\ ScanIdle

\* compare_formulations called with any arguments.
SpecArgs == ArgsInit /\ [][Next]_vars

\* The formulations constructed so far (a raised construction included).
Constructed ==
    (IF pc # "start" THEN {link_based_form} ELSE {})
    \cup (IF pc \in {"pbf_built", "pbf_solved", "cleared"}
          THEN {path_based_form} ELSE {})

\* Some end node has no incident edge of length at most L.
SomeEndNodeCutOff(L) ==
    \E e \in Range(graph_container.end_nodes) :
        ~\E v \in Range(G.nodes) \ {e} :
            G.length[{e, v}] > 0 /\ G.length[{e, v}] <= L

\* D, K and alpha pass the checks of Formulation.__init__.
OtherArgsPass ==
    /\ params.D >= 0
    /\ params.K >= 1 /\ params.K <= graph_container.num_repeater_nodes + 1
    /\ params.alpha >= 0

C19_Accepted ==
    /\ pc = "lbf_built"
    /\ ~SomeEndNodeCutOff(params.L_max)
    /\ SomeEndNodeCutOff(params.L_max - 1)
    /\ params.L_max = MaxLen

C20_NonNegativeNmax ==
    \A form \in Constructed :
        /\ params.N_max < 0 => form.state = "ValueError"
        /\ (/\ params.N_max >= 0
            /\ params.L_max >= 0 /\ ~SomeEndNodeCutOff(params.L_max)
            /\ OtherArgsPass) =>
              /\ form.state # "ValueError"
              /\ form.N_max = IF params.N_max > graph_container.num_repeater_nodes
                              THEN graph_container.num_repeater_nodes
                              ELSE params.N_max

\* C20 happens: a construction with N_max = 0 and every other argument
\* acceptable has been attempted.
C20_Witness ==
    /\ pc # "start"
    /\ params.N_max = 0
    /\ params.L_max >= 0 /\ ~SomeEndNodeCutOff(params.L_max)
    /\ OtherArgsPass

\* C20, the part the code keeps: negative N_max refused, N_max >= 1 accepted
\* and clamped to the number of possible repeater nodes.
C20_PositiveNmax ==
    \A form \in Constructed :
        /\ params.N_max < 1 => form.state = "ValueError"
        /\ (/\ params.N_max >= 1
            /\ params.L_max >= 0 /\ ~SomeEndNodeCutOff(params.L_max)
            /\ OtherArgsPass) =>
              /\ form.state # "ValueError"
              /\ form.N_max = IF params.N_max > graph_container.num_repeater_nodes
                              THEN graph_container.num_repeater_nodes
                              ELSE params.N_max

\* N_max, L_max, K and alpha pass the checks of Formulation.__init__.
ArgsButDPass ==
    /\ params.N_max >= 1
    /\ params.L_max >= 0 /\ ~SomeEndNodeCutOff(params.L_max)
    /\ params.K >= 1 /\ params.K <= graph_container.num_repeater_nodes + 1
    /\ params.alpha >= 0

\* C21: D must be positive: constructing a Formulation raises ValueError
\* whenever D <= 0, D = 0 included; a positive D is accepted (given the other
\* arguments are), and a value above the number of unique source-destination
\* pairs is stored as that number.
C21_PositiveD ==
    \A form \in Constructed :
        /\ params.D <= 0 => form.state = "ValueError"
        /\ (params.D >= 1 /\ ArgsButDPass) =>
              /\ form.state # "ValueError"
              /\ form.D = IF params.D > graph_container.num_unique_pairs
                          THEN graph_container.num_unique_pairs
                          ELSE params.D

\* C21 happens: a construction with D = 0 and every other argument acceptable
\* has been attempted.
C21_Witness ==
    /\ pc # "start"
    /\ params.D = 0
    /\ ArgsButDPass

\* C21, the part the code keeps: negative D refused, D >= 0 accepted and
\* clamped to the number of unique source-destination pairs.
C21_NonNegativeD ==
    \A form \in Constructed :
        /\ (params.D < 0 /\ pc # "start") => form.state = "ValueError"
        /\ (params.D >= 0 /\ ArgsButDPass) =>
              /\ form.state # "ValueError"
              /\ form.D = IF params.D > graph_container.num_unique_pairs
                          THEN graph_container.num_unique_pairs
                          ELSE params.D

\* C21, the clamp at work: a formulation built with D one above the number
\* of unique source-destination pairs.
C21_Clamped ==
    /\ pc = "lbf_built"
    /\ params.D = graph_container.num_unique_pairs + 1
    /\ link_based_form.D = graph_container.num_unique_pairs

\* ------------------------------------------------ Solution as an object
\* nx.Graph.clear(): no node, no edge, no attribute is left.
graph_clear == [nodes |-> <<>>, type |-> <<>>, length |-> <<>>]

\* A Solution together with what its attribute formulation refers to: the
\* formulation (cleared or not) and, through it, the graph container.
SolutionObject(gc, form, sol) ==
    [solution |-> sol, formulation |-> form, graph_container |-> gc]

\* Solution.get_status_string(): formulation.cplex.solution.get_status_string().
\* Once Formulation.clear() has called cplex.end() the solver object is
\* released; what a call on it gives is the choice after_end: it raises
\* (CPLEX documents ValueError) or it still answers.
get_status_string(obj, after) ==
    IF obj.formulation.state = "cleared" /\ after = "raises"
    THEN "ValueError"
    ELSE obj.solution.status

\* Solution._create_virtual_solution_graph: the end nodes and the chosen
\* repeater nodes, joined by the used elementary links.
virtual_solution_graph(obj) ==
    LET links == Range(obj.solution.used_elementary_links)
    IN [nodes |-> Range(obj.graph_container.end_nodes)
                  \cup Range(obj.solution.repeater_nodes_chosen)
                  \cup UNION {{l[1], l[2]} : l \in links},
        edges |-> {{l[1], l[2]} : l \in links}]

RECURSIVE SimplePaths(_, _, _)
\* The simple paths of graph V that extend path to the node t.
SimplePaths(V, path, t) ==
    IF Last(path) = t THEN {path}
    ELSE UNION {SimplePaths(V, Append(path, v), t) :
                   v \in {v \in V.nodes \ Range(path) : {Last(path), v} \in V.edges}}

\* The largest number of paths of DOMAIN parts that are pairwise apart: no
\* two of them share one of their parts.
MostApart(parts) ==
    LET sizes == {Cardinality(S) :
                     S \in {S \in SUBSET DOMAIN parts :
                               \A x, y \in S : x = y \/ parts[x] \cap parts[y] = {}}}
    IN CHOOSE n \in sizes : \A m \in sizes : m <= n

\* nx.algorithms.connectivity.local_node_connectivity(V, s, t): the number of
\* s-t paths that share no inner node (Menger).
local_node_connectivity(V, s, t) ==
    MostApart([x \in SimplePaths(V, <<s>>, t) |-> Inner(x)])

\* nx.edge_connectivity(G=V, s=s, t=t): the number of s-t paths that share no
\* edge.
edge_connectivity(V, s, t) ==
    MostApart([x \in SimplePaths(V, <<s>>, t) |->
                  {{l[1], l[2]} : l \in ChainLinks(x)}])

\* Solution.compute_node_connectivity: (min, avg) over the ordered pairs of
\* distinct end nodes; avg is kept as <<numerator, denominator>>.
compute_node_connectivity(obj) ==
    LET ends == Range(obj.graph_container.end_nodes)
        dict(V) == [q \in {q \in ends \X ends : q[1] # q[2]} |->
                       local_node_connectivity(V, q[1], q[2])]
        result(d) == <<MinOf(Range(d)),
                       <<SumSet(DOMAIN d, d), 2 * obj.graph_container.num_unique_pairs>> >>
    IN result(dict(virtual_solution_graph(obj)))

\* Solution.compute_edge_connectivity: (min, avg) over the unique pairs.
compute_edge_connectivity(obj) ==
    LET pairs == Range(obj.graph_container.unique_end_node_pairs)
        each(V) == [q \in pairs |-> edge_connectivity(V, q[1], q[2])]
        result(d) == <<MinOf(Range(d)),
                       <<SumSet(DOMAIN d, d), obj.graph_container.num_unique_pairs>> >>
    IN result(each(virtual_solution_graph(obj)))

\* Solution.get_solution_data(): [raised, obj, data]: whether the call
\* raised, the solution object after the call (overall_data gains the
\* connectivity entries on the first call) and the dictionary returned.
get_solution_data(obj, after) ==
    LET extended(nc, ec) ==
            [obj EXCEPT !.solution.overall_data =
                 @ @@ [min_node_connectivity |-> nc[1], avg_node_connectivity |-> nc[2],
                       min_edge_connectivity |-> ec[1], avg_edge_connectivity |-> ec[2]]]
        answer(o) == [raised |-> FALSE, obj |-> o, data |-> o.solution.overall_data]
        with(status) ==
            IF status = "ValueError" THEN [raised |-> TRUE, obj |-> obj, data |-> <<>>]
            ELSE IF status = "optimal"
            THEN answer(extended(compute_node_connectivity(obj),
                                 compute_edge_connectivity(obj)))
            ELSE answer(obj)
    IN IF "min_node_connectivity" \notin DOMAIN obj.solution.overall_data
       THEN with(get_status_string(obj, after))
       ELSE answer(obj)

\* ------------------------------------------------ generate_feasible_graphs
\* The most graphs asked for in one call.
MaxGraphs == 2

\* "if number_of_tries == 10000 and number_of_found_graphs == 0"
TryLimit == 10000

\* cplex.get_time() differences: some positive number.
CompTimes == {1, 2}

\* What create_graph_and_partition may hand back: None when the random graph
\* has an isolated node, else a graph without isolated nodes, connected or
\* not, whose end nodes are the corners of the hull.
RandomShapes ==
    { [ends |-> 3, reps |-> 1,
       edges |-> {{"s", "a"}, {"t", "a"}, {"u", "a"}, {"s", "t"}},
       long |-> {}, short |-> {{"s", "t"}, {"t", "a"}}],
      [ends |-> 3, reps |-> 1,
       edges |-> {{"s", "t"}, {"u", "a"}},
       long |-> {}, short |-> {{"s", "t"}, {"u", "a"}}] }

RandomDraws ==
    {[isolates |-> TRUE, graph |-> graph_clear]}
    \cup {[isolates |-> FALSE, graph |-> g] :
             g \in UNION {GraphsOf(shape) : shape \in RandomShapes}}

\* Faulty variant of loop_exit: the loop left whatever the solution is.
loop_exit_Always(sol) == "break"

\* "if solution.feasible: break", else the loop goes on.
loop_exit(sol) == IF sol.feasible THEN "break" ELSE "continue"

\* One pass of the "while True" loop of generate_feasible_graph on the drawn
\* graph: the ways the pass can end.  "continue": the loop goes on;
\* "ValueError": the formulation's constructor raised; "break": the triple
\* that is returned, the formulation cleared and the graph cleared.
generate_feasible_graph_pass(draw, args) ==
    IF draw.isolates \/ ~Connected(draw.graph)
    THEN {[kind |-> "continue", graph |-> draw]}
    ELSE LET cleared == [isolates |-> FALSE, graph |-> graph_clear]
             ended(gc, prog, sol) ==
                 {[kind |-> loop_exit(sol),
                   graph |-> cleared,
                   graph_container |-> [gc EXCEPT !.graph = graph_clear],
                   solution |-> SolutionObject([gc EXCEPT !.graph = graph_clear],
                                               clear(prog), sol),
                   computation_time |-> t] : t \in CompTimes}
             solved(gc, prog) ==
                 IF prog.state = "ValueError"
                 THEN {[kind |-> "ValueError", graph |-> draw]}
                 ELSE UNION {ended(gc, prog, sol) : sol \in solve(gc, prog)}
             built(gc) ==
                 solved(gc, LinkBasedFormulation(gc, args.N_max, args.L_max,
                                                 args.D, args.K, args.alpha))
         IN built(GraphContainer(draw.graph))

\* solve_graphs(graph_containers, alpha, L_max, N_max, D, K): the ways the
\* call can end, [raised, solutions]: ValueError from a constructor or for
\* an infeasible graph, else the list of solutions returned.
RECURSIVE solve_graphs(_, _)
solve_graphs(graph_containers, args) ==
    IF graph_containers = <<>> THEN {[raised |-> FALSE, solutions |-> <<>>]}
    ELSE LET gc == Head(graph_containers)
             ValueError == {[raised |-> TRUE, solutions |-> <<>>]}
             join(prog, sols, later) ==
                 {IF l.raised THEN l
                  ELSE [l EXCEPT !.solutions = <<SolutionObject(gc, prog, sol)>> \o @] :
                     sol \in sols, l \in later}
             rest(prog, sols) ==
                 IF \E sol \in sols : sol.status = "infeasible"
                 THEN ValueError
                 ELSE join(prog, sols, solve_graphs(Tail(graph_containers), args))
             solved(prog) ==
                 IF prog.state = "ValueError" THEN ValueError
                 ELSE rest(prog, solve(gc, prog))
         IN solved(LinkBasedFormulation(gc, args.N_max, args.L_max,
                                        args.D, args.K, args.alpha))

\* The arguments generate_feasible_graphs is called with.
GenArgs ==
    [N_max : {1}, L_max : 1..MaxLmax, D : {1, 3}, K : 1..2, alpha : {0}]

\* gen before the call: the arguments and the locals of
\* generate_feasible_graphs as line 328-330 set them; graph is the local of
\* generate_feasible_graph; newer and data are the caller's: what
\* solve_graphs gave and what get_solution_data gave for each solution;
\* calls lists what each call of generate_feasible_graph returned.
GenStart(num_graphs, args) ==
    [pc |-> "while", num_graphs |-> num_graphs, args |-> args,
     graph_containers |-> <<>>, solutions |-> <<>>, computation_times |-> <<>>,
     number_of_found_graphs |-> 0, number_of_tries |-> 0,
     graph |-> [isolates |-> TRUE, graph |-> graph_clear],
     calls |-> <<>>,
     newer |-> [called |-> FALSE, raised |-> FALSE, solutions |-> <<>>],
     data |-> <<>>]

\* The state of main_solve.compare_formulations, not in use.
CompareIdle ==
    /\ graph_container = GraphContainer(graph_clear)
    /\ params = [N_max |-> 1, L_max |-> 1, D |-> 0, K |-> 1, alpha |-> 0]
    /\ link_based_form = NoFormulation("Link", "none")
    /\ path_based_form = NoFormulation("Path", "none")
    /\ sol_LBF = NoSolution
    /\ sol_PBF = NoSolution
    /\ pc = "idle"

compare_vars == <<graph_container, params, link_based_form, sol_LBF,
                  path_based_form, sol_PBF, pc>>

GenInit ==
    /\ CompareIdle
    /\ after_end \in {"raises", "answers"}
    /\ gen \in {GenStart(n, args) : n \in 0..MaxGraphs, args \in GenArgs}
    /\ scans = <<>>
    /\ lists = <<>>
    /\ last = [op |-> "none"]
    /\ program = [pc |-> "idle"]

\* "while number_of_found_graphs < num_graphs": the loop is left and the
\* three lists returned, or a turn starts: number_of_tries += 1 and the
\* test of the try limit.
WhileTest ==
    /\ gen.pc = "while"
    /\ gen' = IF gen.number_of_found_graphs < gen.num_graphs
              THEN [gen EXCEPT
                      !.number_of_tries = @ + 1,
                      !.pc = IF gen.number_of_tries + 1 = TryLimit
                                /\ gen.number_of_found_graphs = 0
                             THEN "RuntimeError" ELSE "search"]
              ELSE [gen EXCEPT !.pc = "returned",
                               !.data = [i \in 1..Len(gen.solutions) |->
                                            [called |-> FALSE, raised |-> FALSE,
                                             data |-> <<>>]]]
    /\ UNCHANGED <<compare_vars, after_end, scans, lists, last, program>>

\* One pass of the "while True" loop of generate_feasible_graph; on break
\* the triple is returned and appended to the three lists.
TryGraph ==
    /\ gen.pc = "search"
    /\ \E draw \in RandomDraws :
          \E end \in generate_feasible_graph_pass(draw, gen.args) :
             gen' = IF end.kind = "break"
                    THEN [gen EXCEPT
                            !.graph = end.graph,
                            !.graph_containers = Append(@, end.graph_container),
                            !.solutions = Append(@, end.solution),
                            !.computation_times = Append(@, end.computation_time),
                            !.number_of_found_graphs = @ + 1,
                            !.calls = Append(@, <<end.graph_container, end.solution,
                                                  end.computation_time>>),
                            !.pc = "while"]
                    ELSE [gen EXCEPT
                            !.graph = end.graph,
                            !.pc = IF end.kind = "ValueError"
                                   THEN "ValueError" ELSE "search"]
    /\ UNCHANGED <<compare_vars, after_end, scans, lists, last, program>>

\* The caller: new_solutions = solve_graphs(graph_containers, **solve_params)
SolveGraphs ==
    /\ gen.pc = "returned"
    /\ ~gen.newer.called
    /\ \E end \in solve_graphs(gen.graph_containers, gen.args) :
          gen' = [gen EXCEPT !.newer = [called |-> TRUE, raised |-> end.raised,
                                        solutions |-> end.solutions]]
    /\ UNCHANGED <<compare_vars, after_end, scans, lists, last, program>>

\* The caller: solutions[i].get_solution_data()
GetSolutionData ==
    /\ gen.pc = "returned"
    /\ \E i \in 1..Len(gen.solutions) :
          LET end == get_solution_data(gen.solutions[i], after_end)
          IN gen' = [gen EXCEPT !.solutions[i] = end.obj,
                                !.data[i] = [called |-> TRUE, raised |-> end.raised,
                                             data |-> end.data]]
    /\ UNCHANGED <<compare_vars, after_end, scans, lists, last, program>>

GenNext ==
    \/ WhileTest
    \/ TryGraph
    \/ SolveGraphs
    \/ GetSolutionData

\* generate_feasible_graphs and a caller that uses what it returns.
SpecGen == GenInit /\ [][GenNext]_vars

\* ------------------------------------- claims on generate_feasible_graphs
\* generate_feasible_graphs has returned its three lists.
GenReturned == gen.pc = "returned"

\* C11: solve_graphs called on the returned graph containers with the same
\* parameters returns one solution per container, and the solution data of
\* the i-th new solution equals that of the i-th solution returned first.
C11_Reproducible ==
    gen.newer.called =>
        /\ ~gen.newer.raised
        /\ Len(gen.newer.solutions) = Len(gen.solutions)
        /\ \A i \in 1..Len(gen.solutions) :
              LET old == get_solution_data(gen.solutions[i], after_end)
                  new == get_solution_data(gen.newer.solutions[i], after_end)
              IN ~old.raised /\ ~new.raised /\ old.data = new.data

\* C11 happens: solve_graphs was called on a returned list that holds a graph
\* container.
C11_Witness ==
    /\ gen.newer.called
    /\ Len(gen.graph_containers) >= 1

\* The keys get_solution_data adds to overall_data.
ConnectivityKeys ==
    {"min_node_connectivity", "avg_node_connectivity",
     "min_edge_connectivity", "avg_edge_connectivity"}

\* C12: get_solution_data called on a solution that generate_feasible_graphs
\* returned, its formulation cleared, succeeds and returns the overall data
\* with the connectivity entries.
C12_UsableAfterClear ==
    \A i \in DOMAIN gen.data :
        gen.data[i].called =>
            /\ gen.solutions[i].formulation.state = "cleared"
            /\ ~gen.data[i].raised
            /\ ConnectivityKeys \subseteq DOMAIN gen.data[i].data
            /\ {"opt_obj_val", "num_reps", "tot_path_cost"} \subseteq DOMAIN gen.data[i].data

\* C12 happens: get_solution_data was called on a returned solution.
C12_Witness ==
    \E i \in DOMAIN gen.data :
        gen.data[i].called /\ gen.solutions[i].formulation.state = "cleared"

\* The solution object as generate_feasible_graph returned it, before any
\* get_solution_data.
AsReturned(obj, first) ==
    [obj EXCEPT !.solution.overall_data = first.solution.overall_data] = first

\* C13: generate_feasible_graphs(num_graphs = n) returns three lists of
\* length n; the i-th graph container, solution and computation time are
\* those of the i-th returning call of generate_feasible_graph, and every
\* solution is feasible, solved under the given parameters.
C13_ThreeLists ==
    GenReturned =>
        /\ Len(gen.graph_containers) = gen.num_graphs
        /\ Len(gen.solutions) = gen.num_graphs
        /\ Len(gen.computation_times) = gen.num_graphs
        /\ \A i \in 1..gen.num_graphs :
              /\ gen.graph_containers[i] = gen.calls[i][1]
              /\ AsReturned(gen.solutions[i], gen.calls[i][2])
              /\ gen.computation_times[i] = gen.calls[i][3]
              /\ gen.solutions[i].graph_container = gen.graph_containers[i]
              /\ gen.solutions[i].solution.feasible
              /\ gen.solutions[i].solution.status = "optimal"
              /\ gen.solutions[i].formulation.L_max = gen.args.L_max
              /\ gen.solutions[i].formulation.K = gen.args.K
              /\ gen.solutions[i].formulation.alpha = gen.args.alpha

\* C13 happens: several graphs were asked for and the lists returned hold
\* different solutions and computation times.
C13_Witness ==
    /\ GenReturned
    /\ gen.num_graphs = MaxGraphs
    /\ gen.solutions[1].solution # gen.solutions[2].solution
    /\ gen.computation_times[1] # gen.computation_times[2]

\* No pass of generate_feasible_graph on a graph that can be drawn ends the
\* loop under the arguments.
NoDrawLeaves(args) ==
    \A draw \in RandomDraws :
        \A end \in generate_feasible_graph_pass(draw, args) : end.kind = "continue"

\* C18: generate_feasible_graphs does not search forever: while a search for
\* a graph is under way, some pass can end it (a feasible graph found, or an
\* error raised).  The arguments and the graphs that can be drawn stay the
\* same from pass to pass, so a search that no pass can end never ends.
C18_SearchEnds ==
    gen.pc = "search" =>
        \E draw \in RandomDraws :
            \E end \in generate_feasible_graph_pass(draw, gen.args) :
                end.kind \in {"break", "ValueError"}

\* C18 happens: a search is under way, nothing found so far, under arguments
\* for which no graph that can be drawn is feasible.
C18_Witness ==
    /\ gen.pc = "search"
    /\ gen.number_of_found_graphs = 0
    /\ ~gen.graph.isolates
    /\ NoDrawLeaves(gen.args)

\* C18, why the try limit never acts: every call of generate_feasible_graph
\* that returns has found a graph, so at the loop test the tries made are the
\* graphs found, and the two are never TryLimit and 0 together.
C18_TriesAreFinds ==
    /\ gen.pc \in {"while", "returned"} =>
           gen.number_of_tries = gen.number_of_found_graphs
    /\ gen.pc \in {"search", "ValueError"} =>
           gen.number_of_tries = gen.number_of_found_graphs + 1
    /\ gen.pc # "RuntimeError"

\* --------------------------------------------------------- RandomGraphScan
\* The most RandomGraphScan objects made, and the most graphs in one list.
MaxScans == 2
MaxPop == 2

\* A five-node graph create_graph_and_partition may hand back.
WideShapes ==
    { [ends |-> 3, reps |-> 2,
       edges |-> {{"s", "a"}, {"a", "t"}, {"a", "b"}, {"u", "b"}},
       long |-> {}, short |-> {{"s", "a"}, {"a", "t"}, {"a", "b"}, {"u", "b"}}] }

\* create_graph_and_partition(num_nodes, radius): None, or a graph of
\* num_nodes nodes without isolated nodes.
create_graph_and_partition(num_nodes) ==
    {[isolates |-> TRUE, graph |-> graph_clear]}
    \cup {draw \in RandomDraws : ~draw.isolates /\ Len(draw.graph.nodes) = num_nodes}
    \cup {[isolates |-> FALSE, graph |-> g] :
             g \in {h \in UNION {GraphsOf(shape) : shape \in WideShapes} :
                       Len(h.nodes) = num_nodes}}

\* What a RandomGraphScan is made with; scan_param_step is 1, so that the
\* range is scan_param_min, scan_param_min + 1, ..., scan_param_max.
ScanArgs ==
    { [scan_param_name |-> "L_max", scan_param_min |-> 1, scan_param_max |-> 2,
       num_nodes |-> 4, radius |-> 1, alpha |-> 1,
       L_max |-> 3, N_max |-> 1, D |-> 3, K |-> 1],
      [scan_param_name |-> "L_max", scan_param_min |-> 1, scan_param_max |-> 2,
       num_nodes |-> 4, radius |-> 2, alpha |-> 1,
       L_max |-> 3, N_max |-> 1, D |-> 3, K |-> 1],
      [scan_param_name |-> "L_max", scan_param_min |-> 1, scan_param_max |-> 1,
       num_nodes |-> 5, radius |-> 1, alpha |-> 1,
       L_max |-> 3, N_max |-> 2, D |-> 3, K |-> 1],
      [scan_param_name |-> "D", scan_param_min |-> 2, scan_param_max |-> 3,
       num_nodes |-> 4, radius |-> 1, alpha |-> 1,
       L_max |-> 1, N_max |-> 1, D |-> 0, K |-> 1],
      [scan_param_name |-> "alpha", scan_param_min |-> 0, scan_param_max |-> 1,
       num_nodes |-> 4, radius |-> 1, alpha |-> 1,
       L_max |-> 1, N_max |-> 1, D |-> 3, K |-> 1] }

\* "set scan parameter to most restrictive value"
most_restrictive_parameters(a) ==
    LET given == [L_max |-> a.L_max, N_max |-> a.N_max, D |-> a.D, K |-> a.K]
    IN IF a.scan_param_name \in {"L_max", "N_max", "D"}
       THEN [given EXCEPT ![a.scan_param_name] = a.scan_param_min]
       ELSE [given EXCEPT !["K"] = a.scan_param_max]

\* The names a scan can be made over.
ScanParamNames == {"L_max", "N_max", "D", "K"}

\* The ways one pass of generate_feasible_graph can end, for the number of
\* nodes and the most restrictive parameters of every scan that can be
\* made: worked out once and looked up by the calls.
PassEnds ==
    [call \in {[num_nodes |-> a.num_nodes,
                args |-> most_restrictive_parameters(a) @@ [alpha |-> a.alpha]] :
                  a \in {x \in ScanArgs : x.scan_param_name \in ScanParamNames}} |->
        UNION {generate_feasible_graph_pass(draw, call.args) :
                  draw \in create_graph_and_partition(call.num_nodes)}]

\* generate_feasible_graphs(num_graphs, num_nodes, radius, alpha, L_max,
\* N_max, D, K) as one call: the ways it can end, [raised, new_graphs,
\* new_solutions].  Each of the num_graphs calls of generate_feasible_graph
\* returns what some pass that breaks gives, or raises the ValueError of a
\* pass; when no pass ends the loop the call does not end and has no outcome.
generate_feasible_graphs(num_graphs, num_nodes, args) ==
    LET outcomes(ends) ==
            LET found == {[graph_container |-> e.graph_container,
                           solution |-> e.solution] :
                             e \in {x \in ends : x.kind = "break"}}
            IN {[raised |-> FALSE,
                 new_graphs |-> [i \in 1..num_graphs |-> f[i].graph_container],
                 new_solutions |-> [i \in 1..num_graphs |-> f[i].solution]] :
                    f \in [1..num_graphs -> found]}
               \cup (IF num_graphs >= 1 /\ \E x \in ends : x.kind = "ValueError"
                     THEN {[raised |-> TRUE, new_graphs |-> <<>>,
                            new_solutions |-> <<>>]}
                     ELSE {})
    IN outcomes(PassEnds[[num_nodes |-> num_nodes, args |-> args]])

\* The RandomGraphScan object as __init__ has it before generate_new_graphs;
\* graphs is the place in lists of the list object self.graphs refers to.
NewScanObject(a, place) ==
    [scan_param_name |-> a.scan_param_name,
     range |-> [i \in 1..(a.scan_param_max - a.scan_param_min + 1) |->
                   a.scan_param_min + i - 1],
     num_nodes |-> a.num_nodes, radius |-> a.radius, alpha |-> a.alpha,
     most_restrictive_parameters |-> most_restrictive_parameters(a),
     graphs |-> place,
     solutions_data |-> EmptyMap]

\* self.most_restrictive_parameters[self.scan_param_name]
MostRestrictiveValue(scan) ==
    scan.most_restrictive_parameters[scan.scan_param_name]

\* The num_graphs property: len(self.graphs).
num_graphs(scan, ls) == Len(ls[scan.graphs])

\* The largest identity of a graph container held by a list, 0 when none
\* is: containers made later get larger ones.
LargestId(ls) ==
    LET ids == {0} \cup UNION {{ls[l][i].id : i \in DOMAIN ls[l]} : l \in DOMAIN ls}
    IN CHOOSE m \in ids : \A n \in ids : n <= m

\* The arguments the formulations get for one value of the scanned
\* parameter.
ScanParameters(scan, value) ==
    [scan.most_restrictive_parameters EXCEPT ![scan.scan_param_name] = value]
    @@ [alpha |-> scan.alpha]

\* [solution.get_solution_data() for solution in new_solutions]: the data
\* of each solution in order, raised when one of the calls raises.  An
\* entry holds the data and, as a note, the identity of the graph container
\* it is the data of.
RECURSIVE solutions_data_of(_, _, _)
solutions_data_of(new_solutions, first_id, after) ==
    IF new_solutions = <<>> THEN [raised |-> FALSE, data |-> <<>>]
    ELSE LET with(got, later) ==
                 IF got.raised \/ later.raised
                 THEN [raised |-> TRUE, data |-> <<>>]
                 ELSE [raised |-> FALSE,
                       data |-> <<[of |-> first_id, data |-> got.data]>> \o later.data]
         IN with(get_solution_data(Head(new_solutions), after),
                 solutions_data_of(Tail(new_solutions), first_id + 1, after))

\* generate_new_graphs(num_extra_graphs) on scan: the ways the call ends,
\* [raised, scan, lists]: self.graphs += new_graphs comes before the data
\* is taken, and the assert comes last.
generate_new_graphs(scan, ls, num_extra_graphs, after) ==
    LET key == MostRestrictiveValue(scan)
        first_id == LargestId(ls) + 1
        grown(new_graphs) ==
            [ls EXCEPT ![scan.graphs] =
                @ \o [i \in 1..Len(new_graphs) |->
                         [id |-> first_id + i - 1, graph_container |-> new_graphs[i]]]]
        stored(new_solutions_data) ==
            IF key \in DOMAIN scan.solutions_data
            THEN [scan EXCEPT !.solutions_data[key] = @ \o new_solutions_data]
            ELSE [scan EXCEPT !.solutions_data = @ @@ (key :> new_solutions_data)]
        asserted(sc, l) ==
            [raised |-> IF Len(sc.solutions_data[key]) = num_graphs(sc, l)
                        THEN "none" ELSE "AssertionError",
             scan |-> sc, lists |-> l]
        taken(got, l) ==
            IF got.raised THEN [raised |-> "ValueError", scan |-> scan, lists |-> l]
            ELSE asserted(stored(got.data), l)
        ended(o) ==
            IF o.raised THEN [raised |-> "ValueError", scan |-> scan, lists |-> ls]
            ELSE taken(solutions_data_of(o.new_solutions, first_id, after),
                       grown(o.new_graphs))
    IN {ended(o) : o \in generate_feasible_graphs(
                            num_extra_graphs, scan.num_nodes,
                            ScanParameters(scan, key))}

\* An object that is no RandomGraphScan.
NotAScan == [class |-> "str"]

\* The TypeError checks of add_graphs_from_other_random_graph_scan.
add_graphs_raises_NoRadius(sc, other) ==
    \/ other = NotAScan
    \/ sc.num_nodes # other.num_nodes
    \/ sc.most_restrictive_parameters # other.most_restrictive_parameters

add_graphs_raises(sc, other) ==
    \/ other = NotAScan
    \/ sc.num_nodes # other.num_nodes
    \/ sc.radius # other.radius
    \/ sc.most_restrictive_parameters # other.most_restrictive_parameters

\* self.graphs[-num_missing_solutions:]
graphs_without_solution(graphs, num_missing_solutions) ==
    IF num_missing_solutions > 0
    THEN SubSeq(graphs,
                IF num_missing_solutions >= Len(graphs) THEN 1
                ELSE Len(graphs) - num_missing_solutions + 1,
                Len(graphs))
    ELSE SubSeq(graphs, 1 - num_missing_solutions, Len(graphs))

\* "for graph in graphs_without_solution": each graph solved by solve_graphs
\* and the data of its solution appended; [raised, data].
RECURSIVE solve_missing(_, _, _, _)
solve_missing(todo, data, args, after) ==
    IF todo = <<>> THEN {[raised |-> "none", data |-> data]}
    ELSE LET appended(got) ==
                 IF got.raised THEN {[raised |-> "ValueError", data |-> data]}
                 ELSE solve_missing(Tail(todo),
                                    Append(data, [of |-> Head(todo).id,
                                                  data |-> got.data]),
                                    args, after)
             solved(end) ==
                 IF end.raised THEN {[raised |-> "ValueError", data |-> data]}
                 ELSE appended(get_solution_data(end.solutions[1], after))
         IN UNION {solved(end) :
                      end \in solve_graphs(<<Head(todo).graph_container>>, args)}

\* solve(overwrite), the loop over self.range from the values still to do:
\* the ways the call ends, [raised, scan].  A list already stored for a
\* value is appended to in place, so what was appended before an error
\* stays.
RECURSIVE solve_values(_, _, _, _, _)
solve_values(scan, graphs, values, overwrite, after) ==
    IF values = <<>> THEN {[raised |-> "none", scan |-> scan]}
    ELSE LET value == Head(values)
             kept == value \in DOMAIN scan.solutions_data /\ ~overwrite
             solutions_data_this_value ==
                 IF kept THEN scan.solutions_data[value] ELSE <<>>
             put(data) ==
                 IF value \in DOMAIN scan.solutions_data
                 THEN [scan EXCEPT !.solutions_data[value] = data]
                 ELSE [scan EXCEPT !.solutions_data = @ @@ (value :> data)]
             ended(o) ==
                 IF o.raised # "none"
                 THEN {[raised |-> o.raised,
                        scan |-> IF kept THEN put(o.data) ELSE scan]}
                 ELSE IF Len(o.data) # Len(graphs)
                 THEN {[raised |-> "AssertionError",
                        scan |-> IF kept THEN put(o.data) ELSE scan]}
                 ELSE solve_values(put(o.data), graphs, Tail(values),
                                   overwrite, after)
             missing(num_missing_solutions) ==
                 IF num_missing_solutions # 0
                 THEN solve_missing(
                          graphs_without_solution(graphs, num_missing_solutions),
                          solutions_data_this_value,
                          ScanParameters(scan, value), after)
                 ELSE {[raised |-> "none", data |-> solutions_data_this_value]}
         IN UNION {ended(o) :
                      o \in missing(Len(graphs) - Len(solutions_data_this_value))}

\* What last holds of a call: the method, the objects (their places in
\* scans; other is 0 for an object that is no RandomGraphScan), the
\* overwrite argument and how the call ended.
Call(op, self, other, overwrite, raised) ==
    [op |-> op, self |-> self, other |-> other, overwrite |-> overwrite,
     raised |-> raised]

\* The arguments the program makes its objects with: the first with the
\* first scan over L_max or with a wrong name, the later ones with any.
ScanArgsAt(place) ==
    IF place = 1
    THEN {a \in ScanArgs : /\ a.scan_param_name \in {"L_max", "alpha"}
                           /\ a.num_nodes = 4 /\ a.radius = 1}
    ELSE ScanArgs

ScanInit ==
    /\ CompareIdle
    /\ after_end \in {"raises", "answers"}
    /\ gen = [pc |-> "idle"]
    /\ scans = <<>>
    /\ lists = <<>>
    /\ last = [op |-> "none"]
    /\ program = [pc |-> "idle"]

\* RandomGraphScan(scan_param_name, ..., num_graphs, ...): the ValueError
\* for the name, else generate_new_graphs(num_graphs) on the new object;
\* when __init__ raises, the caller gets no object.
NewScan ==
    /\ Len(scans) < MaxScans
    /\ \E a \in ScanArgsAt(Len(scans) + 1), n \in 0..MaxPop :
          IF a.scan_param_name \notin ScanParamNames
          THEN /\ last' = Call("__init__", Len(scans) + 1, 0, FALSE, "ValueError")
               /\ UNCHANGED <<scans, lists>>
          ELSE \E end \in generate_new_graphs(
                              NewScanObject(a, Len(lists) + 1),
                              Append(lists, <<>>), n, after_end) :
                  /\ last' = Call("__init__", Len(scans) + 1, 0, FALSE, end.raised)
                  /\ IF end.raised = "none"
                     THEN /\ scans' = Append(scans, end.scan)
                          /\ lists' = end.lists
                     ELSE UNCHANGED <<scans, lists>>
    /\ UNCHANGED <<compare_vars, after_end, gen, program>>

\* scan.generate_new_graphs(num_extra_graphs)
GenerateNewGraphs ==
    /\ \E i \in DOMAIN scans, n \in 0..MaxPop :
          /\ num_graphs(scans[i], lists) + n <= MaxPop
          /\ \E end \in generate_new_graphs(scans[i], lists, n, after_end) :
                /\ last' = Call("generate_new_graphs", i, 0, FALSE, end.raised)
                /\ scans' = [scans EXCEPT ![i] = end.scan]
                /\ lists' = end.lists
    /\ UNCHANGED <<compare_vars, after_end, gen, program>>

\* scan.add_graphs_from_other_random_graph_scan(other, overwrite)
AddGraphs ==
    /\ \E i \in DOMAIN scans, j \in {0} \cup DOMAIN scans, overwrite \in BOOLEAN :
          LET self == scans[i]
              other == IF j = 0 THEN NotAScan ELSE scans[j]
          IN IF add_graphs_raises(self, other)
             THEN /\ last' = Call("add_graphs", i, j, overwrite, "TypeError")
                  /\ UNCHANGED <<scans, lists>>
             ELSE /\ overwrite \/ num_graphs(self, lists) + num_graphs(other, lists) <= MaxPop
                  /\ last' = Call("add_graphs", i, j, overwrite, "none")
                  /\ IF ~overwrite
                     THEN /\ lists' = [lists EXCEPT ![self.graphs] =
                                          @ \o lists[other.graphs]]
                          /\ UNCHANGED scans
                     ELSE /\ scans' = [scans EXCEPT ![i].graphs = other.graphs,
                                                    ![i].solutions_data = EmptyMap]
                          /\ UNCHANGED lists
    /\ UNCHANGED <<compare_vars, after_end, gen, program>>

\* scan.solve(overwrite)
ScanSolve ==
    /\ \E i \in DOMAIN scans, overwrite \in BOOLEAN :
          \E end \in solve_values(scans[i], lists[scans[i].graphs],
                                  scans[i].range, overwrite, after_end) :
             /\ last' = Call("solve", i, 0, overwrite, end.raised)
             /\ scans' = [scans EXCEPT ![i] = end.scan]
    /\ UNCHANGED <<compare_vars, after_end, gen, lists, program>>

ScanNext ==
    \/ NewScan
    \/ GenerateNewGraphs
    \/ AddGraphs
    \/ ScanSolve

\* A program that makes RandomGraphScan objects and calls their methods.
SpecScan == ScanInit /\ [][ScanNext]_vars

\* ------------------------------------------------ claims on RandomGraphScan
\* The graphs of the scan at place i.
GraphsAt(i) == lists[scans[i].graphs]

\* C14: the assertion at the end of generate_new_graphs holds whatever calls
\* came before: the call never ends in AssertionError.
C14_AssertionHolds ==
    last.op \in {"__init__", "generate_new_graphs"} =>
        last.raised # "AssertionError"

\* C14 happens: generate_new_graphs took the solution data of its new graphs
\* and so reached its assertion, on a build where the ended cplex object
\* answers, with graphs in the population that came from elsewhere.
C14_Witness ==
    /\ last.op = "generate_new_graphs"
    /\ last.raised \in {"none", "AssertionError"}
    /\ after_end = "answers"
    /\ num_graphs(scans[last.self], lists) >
           Len(scans[last.self].solutions_data[MostRestrictiveValue(scans[last.self])])

\* The data stored for value is that of the scan's graphs, one entry a
\* graph, in the order of the graphs.
Aligned(i, value) ==
    /\ value \in DOMAIN scans[i].solutions_data
    /\ Len(scans[i].solutions_data[value]) = Len(GraphsAt(i))
    /\ \A n \in DOMAIN GraphsAt(i) :
          scans[i].solutions_data[value][n].of = GraphsAt(i)[n].id

\* C15: solve(overwrite=False) ends with, for every value of the range,
\* solutions_data[value] holding num_graphs entries, entry i the data of
\* graphs[i].
C15_SolveCompletes ==
    (last.op = "solve" /\ ~last.overwrite) =>
        /\ last.raised = "none"
        /\ \A n \in DOMAIN scans[last.self].range :
              Aligned(last.self, scans[last.self].range[n])

\* C15 happens: solve(overwrite=False) was called on a scan that has graphs
\* and, for some value of its range, data stored for the most restrictive
\* value only.
C15_Witness ==
    /\ last.op = "solve"
    /\ ~last.overwrite
    /\ Len(GraphsAt(last.self)) >= 1
    /\ Aligned(last.self, MostRestrictiveValue(scans[last.self]))
    /\ \E n \in DOMAIN scans[last.self].range :
          scans[last.self].range[n] \notin DOMAIN scans[last.self].solutions_data

\* C15, when solve does return: the data is complete and in the order of the
\* graphs.
C15_WhenSolveReturns ==
    (last.op = "solve" /\ last.raised = "none") =>
        \A n \in DOMAIN scans[last.self].range :
            Aligned(last.self, scans[last.self].range[n])

\* The repeater allocation problem of graph container gc can be set up and
\* solved under args, and has a solution.
HasSolution(gc, args) ==
    \A end \in solve_graphs(<<gc>>, args) : ~end.raised

\* C16: every graph of a population has a feasible solution at every value
\* of the scan range.
C16_FeasibleEverywhere ==
    \A i \in DOMAIN scans :
        \A n \in DOMAIN GraphsAt(i), v \in DOMAIN scans[i].range :
            HasSolution(GraphsAt(i)[n].graph_container,
                        ScanParameters(scans[i], scans[i].range[v]))

\* C16 happens: a scan with a range of several values has a graph, found
\* feasible for the most restrictive value.
C16_Witness ==
    \E i \in DOMAIN scans :
        /\ Len(GraphsAt(i)) >= 1
        /\ Len(scans[i].range) >= 2
        /\ Aligned(i, MostRestrictiveValue(scans[i]))

\* C16, the graphs as they are drawn: a graph that has a solution for the
\* most restrictive parameters of a scan has one for every value of its
\* range.
C16_FeasibleAsDrawn ==
    \A a \in {x \in ScanArgs : x.scan_param_name \in ScanParamNames} :
        \A draw \in create_graph_and_partition(a.num_nodes) :
            LET gc == GraphContainer(draw.graph)
                at(value) ==
                    [most_restrictive_parameters(a) EXCEPT
                        ![a.scan_param_name] = value] @@ [alpha |-> a.alpha]
            IN (~draw.isolates /\ Connected(draw.graph)
                /\ HasSolution(gc, at(most_restrictive_parameters(a)[a.scan_param_name])))
               => \A value \in a.scan_param_min..a.scan_param_max :
                     HasSolution(gc, at(value))

\* The attributes of a scan that add_graphs leaves alone.
Settings(sc) ==
    [sc EXCEPT !.graphs = 0, !.solutions_data = EmptyMap]

\* C17: add_graphs_from_other_random_graph_scan raises TypeError exactly
\* when other is no RandomGraphScan or differs in num_nodes, radius or most
\* restrictive parameters, and then changes nothing; with overwrite=True
\* the graphs become those of other and solutions_data becomes empty; with
\* overwrite=False the graphs of other are appended to the graphs there
\* were and solutions_data is kept.  Nothing else of either object changes.
C17_AddGraphs ==
    [][last'.op = "add_graphs" =>
          LET i == last'.self
              j == last'.other
              differs ==
                  \/ j = 0
                  \/ scans[i].num_nodes # scans[j].num_nodes
                  \/ scans[i].radius # scans[j].radius
                  \/ scans[i].most_restrictive_parameters
                         # scans[j].most_restrictive_parameters
          IN /\ (last'.raised = "TypeError") = differs
             /\ last'.raised \in {"TypeError", "none"}
             /\ Len(scans') = Len(scans)
             /\ \A k \in DOMAIN scans : Settings(scans'[k]) = Settings(scans[k])
             /\ \A k \in DOMAIN scans \ {i} :
                   scans'[k].solutions_data = scans[k].solutions_data
             /\ IF last'.raised = "TypeError"
                THEN scans' = scans /\ lists' = lists
                ELSE IF last'.overwrite
                THEN /\ lists'[scans'[i].graphs] = lists[scans[j].graphs]
                     /\ scans'[i].solutions_data = EmptyMap
                ELSE /\ lists'[scans'[i].graphs] =
                            lists[scans[i].graphs] \o lists[scans[j].graphs]
                     /\ scans'[i].solutions_data = scans[i].solutions_data]_vars

\* C17 happens: the graphs of another scan were added without overwrite to
\* a scan that had graphs and solutions of its own.
C17_Witness ==
    /\ last.op = "add_graphs"
    /\ last.raised = "none"
    /\ ~last.overwrite
    /\ last.other \in DOMAIN scans
    /\ last.other # last.self
    /\ Len(GraphsAt(last.other)) >= 1
    /\ Len(GraphsAt(last.self)) > Len(GraphsAt(last.other))
    /\ GraphsAt(last.self)[1].id # GraphsAt(last.other)[1].id
    /\ \E v \in DOMAIN scans[last.self].solutions_data :
          scans[last.self].solutions_data[v] # <<>>

\* C17, the other cases: the graphs of a scan replaced by those of another,
\* and an addition refused.
C17_Overwritten ==
    /\ last.op = "add_graphs"
    /\ last.raised = "none"
    /\ last.overwrite
    /\ last.other # last.self
    /\ Len(GraphsAt(last.self)) >= 1

C17_Refused ==
    /\ last.op = "add_graphs"
    /\ last.raised = "TypeError"
    /\ last.other \in DOMAIN scans
    /\ Len(GraphsAt(last.other)) >= 1


\* ------------------------------------------------------------- programs.py
\* The row names of programs.py carry a link i,j where those of
\* formulations.py carry one node: a name is the record of its parts.
LinkConName(con, q, i, j, k) == [con |-> con, q |-> q, i |-> i, j |-> j, k |-> k]

\* The fields of a Program after Program.__init__ and before
\* _add_constraints / _add_variables: R_max and D are clamped, nothing is
\* refused (_check_for_feasibility only prints; k is an int here).
BaseProgram(kind, gc, R_max, L_max, D, k, alpha) ==
    [kind |-> kind, state |-> "built",
     R_max |-> IF gc.num_repeater_nodes < R_max THEN gc.num_repeater_nodes ELSE R_max,
     L_max |-> L_max,
     D |-> IF gc.num_unique_pairs < D THEN gc.num_unique_pairs ELSE D,
     k |-> k, alpha |-> alpha,
     rows |-> <<>>, cols |-> <<>>, varmap |-> <<>>]

\* The y columns of a program: objective 1.0, -D in the linking row.
Program_y_columns(gc, D, linkcon) ==
    [n \in 1..gc.num_repeater_nodes |->
        Column(VarName("y", NoPair, gc.possible_rep_nodes[n], "", 0), AlphaDen,
               SparsePair(<<LinkConName(linkcon, NoPair, gc.possible_rep_nodes[n], "", 0)>>,
                          <<-D>>))]

\* EdgeDisjointLinkBasedProgram._add_constraints, the rows in the order
\* added; k runs over range(self.k).
EdgeDisjointLinkBased_rows(gc, R_max, K) ==
    LET reps == gc.possible_rep_nodes
        link_xy == [n \in 1..Len(reps) |->
                       Row(LinkConName("LinkXYCon", NoPair, reps[n], "", 0), "L", 0)]
        disjoint(q, i) ==
            Flatten([m \in 1..(Len(reps) + 1) |->
                LET j == (reps \o <<q[2]>>)[m]
                IN IF i # j
                   THEN <<Row(LinkConName("DisLinkCon", q, i, j, 0), "L", 1)>>
                   ELSE <<>>])
        perK(q, k) ==
            <<Row(LinkConName("SourceCon", q, "", "", k), "E", 1)>>
            \o [n \in 1..Len(reps) |->
                   Row(LinkConName("FlowCon", q, reps[n], "", k), "E", 0)]
            \o <<Row(LinkConName("SinkCon", q, "", "", k), "E", -1),
                 Row(LinkConName("MaxRepCon", q, "", "", k), "L", R_max)>>
        perPair(q) ==
            Flatten([n \in 1..(Len(reps) + 1) |-> disjoint(q, (reps \o <<q[1]>>)[n])])
            \o Flatten([k \in 1..K |-> perK(q, k - 1)])
    IN link_xy
       \o Flatten([p \in 1..Len(gc.unique_end_node_pairs) |->
                      perPair(gc.unique_end_node_pairs[p])])

\* Faulty variant of EdgeDisjointLinkBased_column: the DisLinkCon rows left out.
EdgeDisjointLinkBased_column_NoDisjoint(q, i, j, k) ==
    IF i = q[1]
    THEN IF j = q[2]
         THEN SparsePair(<<LinkConName("SourceCon", q, "", "", k),
                           LinkConName("SinkCon", q, "", "", k)>>,
                         <<1, -1>>)
         ELSE SparsePair(<<LinkConName("SourceCon", q, "", "", k),
                           LinkConName("FlowCon", q, j, "", k),
                           LinkConName("MaxRepCon", q, "", "", k),
                           LinkConName("LinkXYCon", NoPair, j, "", 0)>>,
                         <<1, -1, 1, 1>>)
    ELSE IF j = q[2]
         THEN SparsePair(<<LinkConName("SinkCon", q, "", "", k),
                           LinkConName("FlowCon", q, i, "", k)>>,
                         <<-1, 1>>)
         ELSE SparsePair(<<LinkConName("FlowCon", q, i, "", k),
                           LinkConName("FlowCon", q, j, "", k),
                           LinkConName("MaxRepCon", q, "", "", k),
                           LinkConName("LinkXYCon", NoPair, j, "", 0)>>,
                         <<1, -1, 1, 1>>)

\* The column of x_{ij}^{q,k} in EdgeDisjointLinkBasedProgram._add_variables:
\* its four cases, each with the DisLinkCon row of the link i,j.
EdgeDisjointLinkBased_column(q, i, j, k) ==
    IF i = q[1]
    THEN IF j = q[2]
         THEN SparsePair(<<LinkConName("SourceCon", q, "", "", k),
                           LinkConName("SinkCon", q, "", "", k),
                           LinkConName("DisLinkCon", q, i, j, 0)>>,
                         <<1, -1, 1>>)
         ELSE SparsePair(<<LinkConName("SourceCon", q, "", "", k),
                           LinkConName("FlowCon", q, j, "", k),
                           LinkConName("MaxRepCon", q, "", "", k),
                           LinkConName("DisLinkCon", q, i, j, 0),
                           LinkConName("LinkXYCon", NoPair, j, "", 0)>>,
                         <<1, -1, 1, 1, 1>>)
    ELSE IF j = q[2]
         THEN SparsePair(<<LinkConName("SinkCon", q, "", "", k),
                           LinkConName("FlowCon", q, i, "", k),
                           LinkConName("DisLinkCon", q, i, j, 0)>>,
                         <<-1, 1, 1>>)
         ELSE SparsePair(<<LinkConName("FlowCon", q, i, "", k),
                           LinkConName("FlowCon", q, j, "", k),
                           LinkConName("MaxRepCon", q, "", "", k),
                           LinkConName("DisLinkCon", q, i, j, 0),
                           LinkConName("LinkXYCon", NoPair, j, "", 0)>>,
                         <<1, -1, 1, 1, 1>>)

\* The <<column, varmap entry>> of every x variable of
\* EdgeDisjointLinkBasedProgram._add_variables, in creation order.
EdgeDisjointLinkBased_items(gc, L_max, K, alpha) ==
    LET reps == gc.possible_rep_nodes
        forD(q, i, j, d) ==
            IF d[1] <= L_max
            THEN [n \in 1..K |->
                    <<Column(VarName("x", q, i, j, n - 1), alpha * d[1],
                             EdgeDisjointLinkBased_column(q, i, j, n - 1)),
                      <<q, d[2], d[1]>>>>]
            ELSE <<>>
        forJ(q, i) ==
            Flatten([m \in 1..(Len(reps) + 1) |->
                LET j == (reps \o <<q[2]>>)[m]
                IN IF i # j
                   THEN forD(q, i, j, single_source_dijkstra(gc.graph, i, j))
                   ELSE <<>>])
        forI(q) ==
            Flatten([n \in 1..(Len(reps) + 1) |-> forJ(q, (reps \o <<q[1]>>)[n])])
    IN Flatten([p \in 1..Len(gc.unique_end_node_pairs) |->
                   forI(gc.unique_end_node_pairs[p])])

\* EdgeDisjointLinkBasedProgram(graph_container, R_max, L_max, k, D, alpha)
EdgeDisjointLinkBasedProgram(gc, R_max, L_max, k, D, alpha) ==
    LET base == BaseProgram("EdgeDisjointLink", gc, R_max, L_max, D, k, alpha)
        with(added) ==
            [base EXCEPT !.rows = EdgeDisjointLinkBased_rows(gc, base.R_max, k),
                         !.cols = added.cols,
                         !.varmap = added.varmap]
    IN with(AddAllMapped(Program_y_columns(gc, base.D, "LinkXYCon"),
                         EdgeDisjointLinkBased_items(gc, L_max, k, alpha)))

\* EdgeDisjointPathBasedProgram._add_constraints, the rows in the order added.
EdgeDisjointPathBased_rows(gc, K) ==
    LET reps == gc.possible_rep_nodes
        pairs == gc.unique_end_node_pairs
        disjoint(q) ==
            Flatten([n \in 1..(Len(reps) + 1) |->
                [m \in 1..(Len(reps) + 1) |->
                    Row(LinkConName("DisjointCon", q, (reps \o <<q[1]>>)[n],
                                    (reps \o <<q[2]>>)[m], 0), "L", 1)]])
    IN [p \in 1..Len(pairs) |->
           Row(LinkConName("PairCon", pairs[p], "", "", 0), "E", K)]
       \o [n \in 1..Len(reps) |->
              Row(LinkConName("LinkCon", NoPair, reps[n], "", 0), "L", 0)]
       \o Flatten([p \in 1..Len(pairs) |-> disjoint(pairs[p])])

RECURSIVE EdgeDisjoint_generate_paths(_, _, _, _, _, _, _, _)
\* EdgeDisjointPathBasedProgram._generate_paths: the tuples
\* (full path, r_ip, w_p, b_ijpq) it appends to all_paths, in order.
EdgeDisjoint_generate_paths(gc, L_max, R_max, path, sink, r_ip, w_p, b_ijpq) ==
    LET reps == gc.possible_rep_nodes
        direct(toSink) ==
            IF toSink[1] <= L_max
            THEN << <<path \o Rest(toSink[2]), r_ip, w_p + toSink[1],
                      Append(b_ijpq, <<Last(path), sink>>)>> >>
            ELSE <<>>
        step(rep_node, d) ==
            IF d[1] <= L_max
            THEN EdgeDisjoint_generate_paths(gc, L_max, R_max, path \o Rest(d[2]),
                     sink, Append(r_ip, rep_node), w_p + d[1],
                     Append(b_ijpq, <<Last(path), rep_node>>))
            ELSE <<>>
        via(rep_node) ==
            IF ~Contains(r_ip, rep_node)
               /\ rep_node \in descendants(gc.graph, Last(path))
            THEN step(rep_node,
                      single_source_dijkstra(gc.graph, Last(path), rep_node))
            ELSE <<>>
    IN direct(single_source_dijkstra(gc.graph, Last(path), sink))
       \o (IF Len(r_ip) < R_max
           THEN Flatten([n \in 1..Len(reps) |-> via(reps[n])])
           ELSE <<>>)

\* The column of a path variable of EdgeDisjointPathBasedProgram: its pair
\* row, the LinkCon rows of its repeaters and the DisjointCon rows of its links.
EdgeDisjointPathBased_column(q, r_ip, b_ijpq) ==
    LET indices == <<LinkConName("PairCon", q, "", "", 0)>>
                   \o [n \in 1..Len(r_ip) |->
                          LinkConName("LinkCon", NoPair, r_ip[n], "", 0)]
                   \o [n \in 1..Len(b_ijpq) |->
                          LinkConName("DisjointCon", q, b_ijpq[n][1], b_ijpq[n][2], 0)]
    IN SparsePair(indices, [n \in 1..Len(indices) |-> 1])

\* The <<column, varmap entry>> of every path variable of
\* EdgeDisjointPathBasedProgram._add_variables, in creation order.
EdgeDisjointPathBased_items(gc, L_max, R_max, alpha) ==
    LET forPair(q) ==
            LET all_paths == EdgeDisjoint_generate_paths(gc, L_max, R_max,
                                 <<q[1]>>, q[2], <<>>, 0, <<>>)
            IN [n \in 1..Len(all_paths) |->
                   LET tup == all_paths[n]
                   IN <<Column(VarName("x", NoPair, "", "", 0), alpha * tup[3],
                               EdgeDisjointPathBased_column(q, tup[2], tup[4])),
                        <<q, tup[1], tup[2], tup[3]>>>>]
    IN Flatten([p \in 1..Len(gc.unique_end_node_pairs) |->
                   forPair(gc.unique_end_node_pairs[p])])

\* EdgeDisjointPathBasedProgram(graph_container, R_max, L_max, k, D, alpha):
\* _add_constraints adds the rows and the y columns, _add_variables the
\* path columns.
EdgeDisjointPathBasedProgram(gc, R_max, L_max, k, D, alpha) ==
    LET base == BaseProgram("EdgeDisjointPath", gc, R_max, L_max, D, k, alpha)
        with(added) ==
            [base EXCEPT !.rows = EdgeDisjointPathBased_rows(gc, k),
                         !.cols = added.cols,
                         !.varmap = added.varmap]
    IN with(AddAllMapped(Program_y_columns(gc, base.D, "LinkCon"),
                         EdgeDisjointPathBased_items(gc, L_max, base.R_max, alpha)))

\* The shapes the graphs of the programs are drawn from: two end nodes
\* joined over two repeaters, and three end nodes with every edge but s-t.
ProgramShapes ==
    { [ends |-> 2, reps |-> 2,
       edges |-> {{"s", "a"}, {"a", "t"}, {"s", "b"}, {"b", "t"}, {"a", "b"}},
       long |-> {}, short |-> {{"s", "a"}, {"s", "b"}, {"a", "b"}}],
      [ends |-> 3, reps |-> 2,
       edges |-> {{"s", "a"}, {"s", "b"}, {"a", "b"}, {"a", "t"}, {"b", "t"},
                  {"s", "u"}, {"t", "u"}, {"a", "u"}, {"b", "u"}},
       long |-> {},
       short |-> {{"s", "a"}, {"s", "b"}, {"a", "b"}, {"a", "t"}, {"b", "t"},
                  {"s", "u"}, {"t", "u"}, {"a", "u"}, {"b", "u"}}] }

\* The arguments a program is made with on gc: R_max and D up to one above
\* the value they are clamped to, k up to the number of possible repeaters.
ProgramArgs(gc) ==
    [R_max : 1..(gc.num_repeater_nodes + 1), L_max : 1..MaxLmax,
     D : {gc.num_unique_pairs, gc.num_unique_pairs + 1},
     k : 1..gc.num_repeater_nodes, alpha : {1}]

ProgramInit ==
    /\ CompareIdle
    /\ after_end = "raises"
    /\ gen = [pc |-> "idle"]
    /\ scans = <<>>
    /\ lists = <<>>
    /\ last = [op |-> "none"]
    /\ \E g \in UNION {GraphsOf(shape) : shape \in ProgramShapes} :
          \E args \in ProgramArgs(GraphContainer(g)) :
             program = [pc |-> "start", graph_container |-> GraphContainer(g),
                        args |-> args]

ProgramIdle == UNCHANGED <<compare_vars, after_end, gen, scans, lists, last>>

\* prog = EdgeDisjointLinkBasedProgram(graph_container, R_max, L_max, k, D, alpha)
ConstructEdgeDisjointLinkBased ==
    /\ program.pc = "start"
    /\ program' = [pc |-> "built", graph_container |-> program.graph_container,
                   args |-> program.args,
                   prog |-> EdgeDisjointLinkBasedProgram(program.graph_container,
                                program.args.R_max, program.args.L_max,
                                program.args.k, program.args.D, program.args.alpha)]
    /\ ProgramIdle

\* prog = EdgeDisjointPathBasedProgram(graph_container, L_max, R_max, k, D, alpha)
ConstructEdgeDisjointPathBased ==
    /\ program.pc = "start"
    /\ program' = [pc |-> "built", graph_container |-> program.graph_container,
                   args |-> program.args,
                   prog |-> EdgeDisjointPathBasedProgram(program.graph_container,
                                program.args.R_max, program.args.L_max,
                                program.args.k, program.args.D, program.args.alpha)]
    /\ ProgramIdle

\* An assignment of the binary variables of prog.prob that satisfies every
\* row: a feasible assignment of the program.
FeasibleAssignment ==
    /\ program.pc = "built"
    /\ \E a \in FeasibleSet(program.prog) :
          program' = [pc |-> "assigned",
                      graph_container |-> program.graph_container,
                      args |-> program.args, prog |-> program.prog,
                      assignment |-> a]
    /\ ProgramIdle

ProgramNext ==
    \/ ConstructEdgeDisjointLinkBased
    \/ ConstructEdgeDisjointPathBased
    \/ FeasibleAssignment

SpecProgram == ProgramInit /\ [][ProgramNext]_vars

\* The elementary links i -> j of the node sequence source, r_ip, sink.
PathLinks(nodes) == {<<nodes[n], nodes[n + 1]>> : n \in 1..(Len(nodes) - 1)}

\* The uses of elementary links in assignment a of prog: for every chosen
\* x variable the pair q, the link <<i, j>> and the path of the pair that
\* uses it (the k of x_{ij}^{q,k}, or the path variable itself).
LinkUses(prog, a) ==
    LET xs == {n \in a : prog.cols[n].name.var = "x"}
    IN IF prog.kind = "EdgeDisjointLink"
       THEN {[q |-> prog.cols[n].name.q,
              link |-> <<prog.cols[n].name.i, prog.cols[n].name.j>>,
              path |-> prog.cols[n].name.k] : n \in xs}
       ELSE UNION {{[q |-> prog.varmap[n - 1][1], link |-> l, path |-> n] :
                       l \in PathLinks(<<prog.varmap[n - 1][1][1]>>
                                     \o prog.varmap[n - 1][3]
                                     \o <<prog.varmap[n - 1][1][2]>>)}
                   : n \in xs}

\* Every pair has k paths in a: in the link-based program one source link
\* for every k, in the path-based program k path variables.
HasKPaths(prog, uses) ==
    \A p \in 1..Len(program.graph_container.unique_end_node_pairs) :
        LET q == program.graph_container.unique_end_node_pairs[p]
        IN Cardinality({u.path : u \in {v \in uses : v.q = q /\ v.link[1] = q[1]}})
              = prog.k

\* C22: in the edge-disjoint programs the k paths of one end-node pair are
\* elementary-link-disjoint: in every feasible assignment of either program
\* every pair has its k paths and each elementary link (i, j) is used by at
\* most one of them.
C22_LinkDisjoint ==
    program.pc = "assigned" =>
        LET uses == LinkUses(program.prog, program.assignment)
        IN /\ HasKPaths(program.prog, uses)
           /\ \A u, v \in uses :
                 (u.q = v.q /\ u.link = v.link) => u.path = v.path

\* A feasible assignment with k = 2 in which two paths of one pair pass
\* through the same repeater node.
C22_Witness ==
    /\ program.pc = "assigned"
    /\ program.args.k = 2
    /\ \E u, v \in LinkUses(program.prog, program.assignment) :
          /\ u.q = v.q /\ u.path # v.path
          /\ u.link[2] = v.link[2]
          /\ u.link[2] \in Range(program.graph_container.possible_rep_nodes)

====
